---- MODULE Spec2Model ----
(***************************************************************************)
(* Local persistence layer of the SDK: the Storage facade, the             *)
(* MemoryStoreConnector and the LocalStorageConnector, and the condition   *)
(* compiler that turns a query into EQ/IN clauses.                         *)
(*                                                                         *)
(* A record is a flat mapping of field name -> scalar; scalars are small   *)
(* integers.                                                               *)
(***************************************************************************)
EXTENDS Integers, Sequences, FiniteSets, TLC

VARIABLES
    connector,      \* Max.Storage.connector: the facade's active connector
    memory,         \* Max.MemoryStoreConnector.memory: table name -> rows
    memSeq,         \* MemoryStoreConnector: per-table id counter
    localStorage,   \* window.localStorage: key -> serialized table
    localSeq,       \* LocalStorageConnector: per-table id counter
    pending,        \* completion of the operation in flight, not yet delivered
    snap,           \* history: the table as the operation in flight found it
    cq,             \* condition compiler: the query given
    clauses,        \* condition compiler: the clause list produced
    cpc,            \* condition compiler: "idle" or "done"
    sqlCall,        \* SQLConnector: the operation in flight and its arguments
    sqlSync,        \* SQL engine: it runs a transaction inside db.transaction()
    sqlPc,          \* SQL engine: "idle", "open", "run" or "done"
    sqlQueue,       \* SQL engine: statements issued, not yet executed
    sqlLog,         \* SQL engine: statements executed, in order
    sqlTx,          \* SQL engine: transactions opened by the operation
    sqlInCall,      \* SQLConnector: the call of the operation has not returned
    sqlSuccess,     \* times the success callback of the operation was invoked
    sqlFailure,     \* times the failure callback of the operation was invoked
    sqlEarly,       \* history: a callback was invoked before the call returned
    sqlErr,         \* the error last handed to the failure callback
    sqlRaised,      \* SQL engine: the error it raised in the transaction
    sqlOutcome,     \* SQL engine: "", "committed" or "failed"
    left,           \* history: the storage of the connector last swapped out
    shadow,         \* what the in-memory connector delivered for the call
                    \* the key-value connector is given next
    writers,        \* concurrent writers of one key: where each one is
    completed,      \* history: write-backs completed by the writers
    raced,          \* history: two writers were at work at the same time
    mCurrentUser,   \* TRUE when there is a current user
    mXMPPConnection,\* "null", "disconnected" or "connected"
    chanCall,       \* the channel operation in flight
    handlers,       \* response handlers registered by the operation
    sent,           \* stanzas and requests sent by the operation
    store,          \* ChannelStore.store: key -> channel
    cacheOp,        \* the last operation of ChannelStore and what it returned
    hatCredentials, \* TRUE when MagnetJS.App.hatCredentials is set
    cookies,        \* the cookies that exist
    logoutReq,      \* the request of User.logout: none, sent, resolved, rejected
    loginReq,       \* the login in flight: none, login, refresh, access, connecting
    trace           \* history: what User.logout did, in order

sqlVars == <<sqlCall, sqlSync, sqlPc, sqlQueue, sqlLog, sqlTx, sqlInCall,
             sqlSuccess, sqlFailure, sqlEarly, sqlErr, sqlRaised, sqlOutcome>>

appVars == <<mCurrentUser, mXMPPConnection, chanCall, handlers, sent, store,
             cacheOp, hatCredentials, cookies, logoutReq, loginReq, trace>>

auxVars == <<left, shadow, writers, completed, raced, appVars>>

vars == <<connector, memory, memSeq, localStorage, localSeq, pending,
          snap, cq, clauses, cpc, sqlVars, auxVars>>

storeVars == <<connector, memory, memSeq, localStorage, localSeq>>
compVars == <<cq, clauses, cpc>>

----------------------------------------------------------------------------
(* Bounds of the model *)

MaxVal == 2         \* field values are 1..MaxVal
MaxRecs == 2        \* rows a connector holds over all its tables
MaxId == 2          \* highest id the per-table counters assign
MaxKeys == 3        \* keys of a query given to the condition compiler

Tables == {"T", "U"}
Fields == {"a", "b"}
Vals == 1..MaxVal
SuppliedIds == 1..MaxId
Connectors == {"memory", "local"}

TABLE_NOT_EXIST == "table-not-exist"
RECORD_NOT_EXIST == "record-not-exist"

----------------------------------------------------------------------------
(* Records: a mapping of field name -> scalar, a function on its keys *)

NoRecord == <<>>

Has(rec, k) == k \in DOMAIN rec

Val(rec, k) == rec[k]

\* rec[k] = v
Put(rec, k, v) == (k :> v) @@ rec

\* for (var key in partial) rec[key] = partial[key]
Merge(rec, partial) == partial @@ rec

----------------------------------------------------------------------------
(* Queries.  kind "null": no query; "id": a scalar id; "map": a mapping,  *)
(* a sequence of entries in key order, each a scalar (v) or a list (vs).   *)

NullQuery == [kind |-> "null", id |-> 0, map |-> <<>>]
IdQuery(n) == [kind |-> "id", id |-> n, map |-> <<>>]
MapQuery(m) == [kind |-> "map", id |-> 0, map |-> m]

ScalarEntry(k, v) == [k |-> k, list |-> FALSE, v |-> v, vs |-> <<>>]
ListEntry(k, vs) == [k |-> k, list |-> TRUE, v |-> 0, vs |-> vs]

----------------------------------------------------------------------------
(* Condition compiler *)

EqClause(k, v) == [field |-> k, op |-> "EQ", v |-> v, vs |-> <<>>]
InClause(k, vs) == [field |-> k, op |-> "IN", v |-> 0, vs |-> vs]

RECURSIVE EqClauses(_)
EqClauses(m) ==
    IF m = <<>> THEN <<>>
    ELSE (IF Head(m).list THEN <<>> ELSE <<EqClause(Head(m).k, Head(m).v)>>)
         \o EqClauses(Tail(m))

RECURSIVE InClauses(_)
InClauses(m) ==
    IF m = <<>> THEN <<>>
    ELSE (IF Head(m).list THEN <<InClause(Head(m).k, Head(m).vs)>> ELSE <<>>)
         \o InClauses(Tail(m))

\* mutant: one clause per key in the order of the mapping, not partitioned
CompileInKeyOrder(q) ==
    IF q.kind = "map"
    THEN [i \in 1..Len(q.map) |->
            IF q.map[i].list THEN InClause(q.map[i].k, q.map[i].vs)
                             ELSE EqClause(q.map[i].k, q.map[i].v)]
    ELSE <<>>

\* null -> no clause; mapping -> equality clauses, then membership clauses
Compile(q) ==
    IF q.kind = "map" THEN EqClauses(q.map) \o InClauses(q.map) ELSE <<>>

\* mutant: a record that lacks the field passes the clause
ClauseHoldsOrMissing(rec, c) ==
    Has(rec, c.field) =>
        IF c.op = "EQ"
        THEN Val(rec, c.field) = c.v
        ELSE \E i \in 1..Len(c.vs) : c.vs[i] = Val(rec, c.field)

ClauseHolds(rec, c) ==
    /\ Has(rec, c.field)
    /\ IF c.op = "EQ"
       THEN Val(rec, c.field) = c.v
       ELSE \E i \in 1..Len(c.vs) : c.vs[i] = Val(rec, c.field)

\* mutant: one clause that holds is enough
MatchesAny(rec, q) ==
    IF q.kind = "id"
    THEN Has(rec, "id") /\ Val(rec, "id") = q.id
    ELSE \E i \in 1..Len(Compile(q)) : ClauseHolds(rec, Compile(q)[i])

\* does the record match the query (a scalar query is an id lookup)
Matches(rec, q) ==
    IF q.kind = "id"
    THEN Has(rec, "id") /\ Val(rec, "id") = q.id
    ELSE \A i \in 1..Len(Compile(q)) : ClauseHolds(rec, Compile(q)[i])

----------------------------------------------------------------------------
(* JSON.stringify / JSON.parse of a table: the blob is a token sequence    *)
(* "[" "{" key value ... "}" ... "]" with every number written as text.    *)

Digits == <<"0", "1", "2", "3", "4", "5", "6", "7", "8", "9">>

NumText(n) == Digits[n + 1]

TextNum(s) == (CHOOSE i \in 1..Len(Digits) : Digits[i] = s) - 1

KeyOrder == <<"a", "b", "id">>

RECURSIVE StringifyKeys(_, _)
StringifyKeys(rec, ks) ==
    IF ks = <<>> THEN <<>>
    ELSE (IF Has(rec, Head(ks))
          THEN <<Head(ks), NumText(Val(rec, Head(ks)))>> ELSE <<>>)
         \o StringifyKeys(rec, Tail(ks))

\* mutant: the id of a record is not written
StringifyRecordBare(rec) == StringifyKeys(rec, <<"a", "b">>)

StringifyRecord(rec) == StringifyKeys(rec, KeyOrder)

RECURSIVE StringifyRows(_)
StringifyRows(rows) ==
    IF rows = <<>> THEN <<>>
    ELSE <<"{">> \o StringifyRecord(Head(rows)) \o <<"}">>
         \o StringifyRows(Tail(rows))

\* mutant: only the newest record is written back
StringifyNewest(rows) ==
    <<"[">> \o StringifyRows(IF rows = <<>> THEN <<>> ELSE <<rows[Len(rows)]>>)
            \o <<"]">>

Stringify(rows) == <<"[">> \o StringifyRows(rows) \o <<"]">>

RECURSIVE ParseFrom(_, _, _)
ParseFrom(toks, rows, cur) ==
    IF toks = <<>> \/ Head(toks) = "]" THEN rows
    ELSE IF Head(toks) = "{" THEN ParseFrom(Tail(toks), rows, NoRecord)
    ELSE IF Head(toks) = "}"
         THEN ParseFrom(Tail(toks), Append(rows, cur), NoRecord)
    ELSE ParseFrom(Tail(Tail(toks)), rows, Put(cur, toks[1], TextNum(toks[2])))

JsonParse(blob) == ParseFrom(Tail(blob), <<>>, NoRecord)

----------------------------------------------------------------------------
(* Access of a connector to its tables *)

\* memory[table] is defined / localStorage.getItem(table) is valid JSON
Registered(c, t) ==
    IF c = "memory" THEN t \in DOMAIN memory ELSE t \in DOMAIN localStorage

Rows(c, t) == IF c = "memory" THEN memory[t] ELSE JsonParse(localStorage[t])

RowsOrEmpty(c, t) == IF Registered(c, t) THEN Rows(c, t) ELSE <<>>

Counter(c, t) == IF c = "memory" THEN memSeq[t] ELSE localSeq[t]

\* mutant: the registry is replaced by one that holds this table only
SaveAlone(c, t, rows) ==
    IF c = "memory"
    THEN /\ memory' = (t :> rows)
         /\ UNCHANGED localStorage
    ELSE /\ localStorage' = (t :> Stringify(rows))
         /\ UNCHANGED memory

\* memory[table] = rows / localStorage.setItem(table, JSON.stringify(rows))
Save(c, t, rows) ==
    IF c = "memory"
    THEN /\ memory' = (t :> rows) @@ memory
         /\ UNCHANGED localStorage
    ELSE /\ localStorage' = (t :> Stringify(rows)) @@ localStorage
         /\ UNCHANGED memory

SetCounter(c, t, n) ==
    IF c = "memory"
    THEN /\ memSeq' = [memSeq EXCEPT ![t] = n]
         /\ UNCHANGED localSeq
    ELSE /\ localSeq' = [localSeq EXCEPT ![t] = n]
         /\ UNCHANGED memSeq

RECURSIVE TotalOver(_, _)
TotalOver(c, ts) ==
    IF ts = {} THEN 0
    ELSE LET t == CHOOSE x \in ts : TRUE
         IN Len(RowsOrEmpty(c, t)) + TotalOver(c, ts \ {t})

TotalRows(c) == TotalOver(c, Tables)

----------------------------------------------------------------------------
(* Completions: what an operation hands to its success or failure callback *)

NoOp ==
    [op |-> "none", table |-> "", cb |-> "", err |-> "", kind |-> "none",
     rec |-> NoRecord, list |-> <<>>, inRec |-> NoRecord, inId |-> 0, q |-> NullQuery]

Completion(op, t, cb, err, kind, rec, list, inRec, inId, q) ==
    [op |-> op, table |-> t, cb |-> cb, err |-> err, kind |-> kind,
     rec |-> rec, list |-> list, inRec |-> inRec, inId |-> inId, q |-> q]

Failure(op, t, err, inRec, inId, q) ==
    Completion(op, t, "failure", err, "none", NoRecord, <<>>, inRec, inId, q)

NoSnap == [reg |-> FALSE, rows |-> <<>>]

Found(c, t) == [reg |-> Registered(c, t), rows |-> RowsOrEmpty(c, t)]

----------------------------------------------------------------------------
(* The operations on the rows of one table *)

\* the id of a new record: the caller's, or the table's counter
AssignId(r, n) == IF Has(r, "id") THEN r ELSE Put(r, "id", n)

\* mutant: the counter stays where it is
NextCounterStuck(r, n) == n

NextCounter(r, n) == IF Has(r, "id") THEN n ELSE n + 1

FirstWithId(rows, id) ==
    CHOOSE i \in 1..Len(rows) :
        /\ Matches(rows[i], IdQuery(id))
        /\ \A j \in 1..(i - 1) : ~Matches(rows[j], IdQuery(id))

HasId(rows, id) == \E i \in 1..Len(rows) : Matches(rows[i], IdQuery(id))

Select(rows, q) == SelectSeq(rows, LAMBDA r : Matches(r, q))

Reject(rows, q) == SelectSeq(rows, LAMBDA r : ~Matches(r, q))

\* mutant: the rows found are handed over as a list, for a scalar id too
GetKindAsList(rows, q) == "list"

\* the payload of get: a record or nothing for a scalar, else a list
GetKind(rows, q) ==
    IF q.kind = "id"
    THEN (IF HasId(rows, q.id) THEN "record" ELSE "absent")
    ELSE "list"

GetRec(rows, q) ==
    IF q.kind = "id" /\ HasId(rows, q.id)
    THEN rows[FirstWithId(rows, q.id)] ELSE NoRecord

\* mutant: the matching records, the newest first
GetListNewestFirst(rows, q) ==
    IF q.kind = "id" THEN <<>>
    ELSE [i \in 1..Len(Select(rows, q)) |->
            Select(rows, q)[Len(Select(rows, q)) + 1 - i]]

GetList(rows, q) == IF q.kind = "id" THEN <<>> ELSE Select(rows, q)

UpdateRows(rows, id, partial) ==
    [rows EXCEPT ![FirstWithId(rows, id)] = Merge(@, partial)]

\* create every seed in turn: <<rows, counter>>
RECURSIVE Seed(_, _, _)
Seed(rows, n, seeds) ==
    IF seeds = <<>> THEN <<rows, n>>
    ELSE Seed(Append(rows, AssignId(Head(seeds), n)),
              NextCounter(Head(seeds), n), Tail(seeds))

----------------------------------------------------------------------------
(* Inputs of the operations *)

Bodies == [{"a"} -> Vals] \cup [{"a", "b"} -> Vals]

\* records given to create, without and with an id of the caller
InputRecords ==
    Bodies \cup {Put(b, "id", i) : b \in [{"a"} -> Vals], i \in SuppliedIds}

\* partial records given to update
Partials ==
    Bodies \cup [{"b"} -> Vals] \cup [{"id"} -> SuppliedIds]

SeedLists ==
    {<<>>} \cup {<<r>> : r \in InputRecords}
           \cup {<<r1, r2>> : r1 \in [{"a"} -> Vals], r2 \in [{"a"} -> Vals]}

AllVals == [i \in 1..MaxVal |-> i]

Maps ==
    {<<ScalarEntry("a", v)>> : v \in Vals}
    \cup {<<ScalarEntry("b", 1)>>, <<ListEntry("id", <<MaxId + 1, 1>>)>>,
          <<ListEntry("a", AllVals)>>,
          <<ListEntry("b", AllVals), ScalarEntry("a", 1)>>}

Queries ==
    {NullQuery} \cup {IdQuery(n) : n \in 1..(MaxId + 1)}
                \cup {MapQuery(m) : m \in Maps}

----------------------------------------------------------------------------
(* The SQL connector at rest *)

MaxSeeds == 2       \* seed records given to the SQL connector's ensureTable

NoCall ==
    [op |-> "none", table |-> "", rec |-> <<>>, id |-> 0, q |-> NullQuery,
     seeds |-> <<>>, reset |-> FALSE]

SqlIdle ==
    /\ sqlCall = NoCall
    /\ sqlSync = FALSE
    /\ sqlPc = "idle"
    /\ sqlQueue = <<>>
    /\ sqlLog = <<>>
    /\ sqlTx = 0
    /\ sqlInCall = FALSE
    /\ sqlSuccess = 0
    /\ sqlFailure = 0
    /\ sqlEarly = FALSE
    /\ sqlErr = ""
    /\ sqlRaised = ""
    /\ sqlOutcome = ""

----------------------------------------------------------------------------
(* The storage of a connector, and the session at its start *)

Writers == {1, 2}

\* a writer that is not writing
Away == [pc |-> "away", rows |-> <<>>, rec |-> NoRecord]

\* everything a connector holds: its tables and its id counters
StoreOf(c) ==
    IF c = "memory" THEN [tables |-> memory, seq |-> memSeq]
                    ELSE [tables |-> localStorage, seq |-> localSeq]

NoStore == [tables |-> <<>>, seq |-> [t \in Tables |-> 1]]

Other(c) == IF c = "memory" THEN "local" ELSE "memory"

NoChannelCall ==
    [op |-> "none", pc |-> "idle", isPublic |-> "undefined", permissions |-> "",
     named |-> TRUE, tags |-> TRUE, owner |-> TRUE, attachments |-> FALSE,
     user |-> FALSE, conn |-> "null", outcome |-> ""]

NoChannel == [userId |-> "", name |-> <<>>, tag |-> 0]

NoCacheOp == [op |-> "none", arg |-> NoChannel, found |-> FALSE,
              result |-> NoChannel]

AppIdle ==
    /\ mCurrentUser = FALSE
    /\ mXMPPConnection = "null"
    /\ chanCall = NoChannelCall
    /\ handlers = 0
    /\ sent = <<>>
    /\ store = <<>>
    /\ cacheOp = NoCacheOp
    /\ hatCredentials = FALSE
    /\ cookies = {}
    /\ logoutReq = "none"
    /\ loginReq = "none"
    /\ trace = <<>>

AuxIdle ==
    /\ AppIdle
    /\ left = NoStore
    /\ shadow = NoOp
    /\ writers = [w \in Writers |-> Away]
    /\ completed = 0
    /\ raced = FALSE

----------------------------------------------------------------------------
(* The facade: every call is forwarded to the active connector.  One       *)
(* operation is in flight at a time; its completion is delivered later.    *)

Idle == pending = NoOp

\* mutant: the facade keeps calling the connector it started with
ActiveDefault == "memory"

\* Max.Storage.connector, the connector every facade call is forwarded to
Active == connector

\* mutant: create on a table that is not registered fails
CreateStrict(t, r) ==
    /\ Idle
    /\ snap' = Found(connector, t)
    /\ LET c == Active
           n == Counter(c, t)
           rec == AssignId(r, n)
       IN /\ TotalRows(c) < MaxRecs
          /\ Has(r, "id") \/ n <= MaxId
          /\ IF Registered(c, t)
             THEN /\ Save(c, t, Append(Rows(c, t), rec))
                  /\ SetCounter(c, t, NextCounter(r, n))
                  /\ pending' = Completion("create", t, "success", "", "record",
                                           rec, <<>>, r, 0, NullQuery)
             ELSE /\ pending' = Failure("create", t, TABLE_NOT_EXIST, r, 0,
                                        NullQuery)
                  /\ UNCHANGED <<memory, localStorage, memSeq, localSeq>>
    /\ UNCHANGED <<connector, compVars, sqlVars, auxVars>>

Create(t, r) ==
    /\ Idle
    /\ snap' = Found(connector, t)
    /\ LET c == Active
           n == Counter(c, t)
           rec == AssignId(r, n)
       IN /\ TotalRows(c) < MaxRecs
          /\ Has(r, "id") \/ n <= MaxId
          /\ Save(c, t, Append(RowsOrEmpty(c, t), rec))
          /\ SetCounter(c, t, NextCounter(r, n))
          /\ pending' = Completion("create", t, "success", "", "record",
                                   rec, <<>>, r, 0, NullQuery)
    /\ UNCHANGED <<connector, compVars, sqlVars, auxVars>>

Get(t, q) ==
    /\ Idle
    /\ snap' = Found(connector, t)
    /\ LET c == Active
       IN pending' =
            IF Registered(c, t)
            THEN Completion("get", t, "success", "", GetKind(Rows(c, t), q),
                            GetRec(Rows(c, t), q), GetList(Rows(c, t), q),
                            NoRecord, 0, q)
            ELSE Failure("get", t, TABLE_NOT_EXIST, NoRecord, 0, q)
    /\ UNCHANGED <<storeVars, compVars, sqlVars, auxVars>>

\* mutant: no check that a record was found
UpdateUnchecked(t, id, partial) ==
    /\ Idle
    /\ snap' = Found(connector, t)
    /\ LET c == Active
       IN IF ~Registered(c, t)
          THEN /\ pending' = Failure("update", t, TABLE_NOT_EXIST, partial, id,
                                     NullQuery)
               /\ UNCHANGED <<memory, localStorage>>
          ELSE IF ~HasId(Rows(c, t), id)
          THEN /\ pending' = Completion("update", t, "success", "", "absent",
                                        NoRecord, <<>>, partial, id, NullQuery)
               /\ UNCHANGED <<memory, localStorage>>
          ELSE LET rows == UpdateRows(Rows(c, t), id, partial)
               IN /\ Save(c, t, rows)
                  /\ pending' = Completion("update", t, "success", "", "record",
                                  rows[FirstWithId(Rows(c, t), id)], <<>>,
                                  partial, id, NullQuery)
    /\ UNCHANGED <<connector, memSeq, localSeq, compVars, sqlVars, auxVars>>

Update(t, id, partial) ==
    /\ Idle
    /\ snap' = Found(connector, t)
    /\ LET c == Active
       IN IF ~Registered(c, t)
          THEN /\ pending' = Failure("update", t, TABLE_NOT_EXIST, partial, id,
                                     NullQuery)
               /\ UNCHANGED <<memory, localStorage>>
          ELSE IF ~HasId(Rows(c, t), id)
          THEN /\ pending' = Failure("update", t, RECORD_NOT_EXIST, partial, id,
                                     NullQuery)
               /\ UNCHANGED <<memory, localStorage>>
          ELSE LET rows == UpdateRows(Rows(c, t), id, partial)
               IN /\ Save(c, t, rows)
                  /\ pending' = Completion("update", t, "success", "", "record",
                                  rows[FirstWithId(Rows(c, t), id)], <<>>,
                                  partial, id, NullQuery)
    /\ UNCHANGED <<connector, memSeq, localSeq, compVars, sqlVars, auxVars>>

\* mutant: a table that is not there is taken for an empty one
RemoveLenient(t, q) ==
    /\ Idle
    /\ snap' = Found(connector, t)
    /\ Save(Active, t, Reject(RowsOrEmpty(Active, t), q))
    /\ pending' = Completion("remove", t, "success", "", "none",
                             NoRecord, <<>>, NoRecord, 0, q)
    /\ UNCHANGED <<connector, memSeq, localSeq, compVars, sqlVars, auxVars>>

\* mutant: a remove that fails leaves an empty table behind
RemoveRegistering(t, q) ==
    /\ Idle
    /\ snap' = Found(connector, t)
    /\ LET c == Active
       IN IF ~Registered(c, t)
          THEN /\ pending' = Failure("remove", t, TABLE_NOT_EXIST, NoRecord, 0, q)
               /\ Save(c, t, <<>>)
          ELSE /\ Save(c, t, Reject(Rows(c, t), q))
               /\ pending' = Completion("remove", t, "success", "", "none",
                                        NoRecord, <<>>, NoRecord, 0, q)
    /\ UNCHANGED <<connector, memSeq, localSeq, compVars, sqlVars, auxVars>>

Remove(t, q) ==
    /\ Idle
    /\ snap' = Found(connector, t)
    /\ LET c == Active
       IN IF ~Registered(c, t)
          THEN /\ pending' = Failure("remove", t, TABLE_NOT_EXIST, NoRecord, 0, q)
               /\ UNCHANGED <<memory, localStorage>>
          ELSE /\ Save(c, t, Reject(Rows(c, t), q))
               /\ pending' = Completion("remove", t, "success", "", "none",
                                        NoRecord, <<>>, NoRecord, 0, q)
    /\ UNCHANGED <<connector, memSeq, localSeq, compVars, sqlVars, auxVars>>

\* mutant: a table that is not there is an error
ClearTableStrict(t) ==
    /\ Idle
    /\ snap' = Found(connector, t)
    /\ IF Registered(Active, t)
       THEN /\ Save(Active, t, <<>>)
            /\ pending' = Completion("clearTable", t, "success", "", "none",
                                     NoRecord, <<>>, NoRecord, 0, NullQuery)
       ELSE /\ pending' = Failure("clearTable", t, TABLE_NOT_EXIST, NoRecord, 0,
                                  NullQuery)
            /\ UNCHANGED <<memory, localStorage>>
    /\ UNCHANGED <<connector, memSeq, localSeq, compVars, sqlVars, auxVars>>

\* mutant: the table is deleted with its records
ClearTableDrop(t) ==
    /\ Idle
    /\ snap' = Found(connector, t)
    /\ IF Active = "memory"
       THEN /\ memory' = [x \in DOMAIN memory \ {t} |-> memory[x]]
            /\ UNCHANGED localStorage
       ELSE /\ localStorage' =
                  [x \in DOMAIN localStorage \ {t} |-> localStorage[x]]
            /\ UNCHANGED memory
    /\ pending' = Completion("clearTable", t, "success", "", "none",
                             NoRecord, <<>>, NoRecord, 0, NullQuery)
    /\ UNCHANGED <<connector, memSeq, localSeq, compVars, sqlVars, auxVars>>

ClearTable(t) ==
    /\ Idle
    /\ snap' = Found(connector, t)
    /\ Save(Active, t, <<>>)
    /\ pending' = Completion("clearTable", t, "success", "", "none",
                             NoRecord, <<>>, NoRecord, 0, NullQuery)
    /\ UNCHANGED <<connector, memSeq, localSeq, compVars, sqlVars, auxVars>>

\* createTableIfNotExist(table, schema, kvps, clearRecords): register the
\* table, clear it if asked, then create every seed
Ensure(op, t, seeds, reset) ==
    /\ snap' = Found(connector, t)
    /\ LET c == Active
           kept == IF reset THEN <<>> ELSE RowsOrEmpty(c, t)
           done == Seed(kept, Counter(c, t), seeds)
       IN /\ TotalRows(c) - Len(RowsOrEmpty(c, t)) + Len(done[1]) <= MaxRecs
          /\ done[2] <= MaxId + 1
          /\ Save(c, t, done[1])
          /\ SetCounter(c, t, done[2])
          /\ pending' = Completion(op, t, "success", "", "none",
                                   NoRecord, seeds, NoRecord,
                                   IF reset THEN 1 ELSE 0,
                                   NullQuery)
    /\ UNCHANGED <<connector, compVars, sqlVars, auxVars>>

\* mutant: the seeds are created first and the table is cleared after them
EnsureTableSeedFirst(t, seeds, reset) ==
    /\ Idle
    /\ snap' = Found(connector, t)
    /\ LET c == Active
           done == Seed(RowsOrEmpty(c, t), Counter(c, t), seeds)
           rows == IF reset THEN <<>> ELSE done[1]
       IN /\ TotalRows(c) - Len(RowsOrEmpty(c, t)) + Len(done[1]) <= MaxRecs
          /\ done[2] <= MaxId + 1
          /\ Save(c, t, rows)
          /\ SetCounter(c, t, done[2])
          /\ pending' = Completion("ensureTable", t, "success", "", "none",
                                   NoRecord, seeds, NoRecord,
                                   IF reset THEN 1 ELSE 0,
                                   NullQuery)
    /\ UNCHANGED <<connector, compVars, sqlVars, auxVars>>

EnsureTable(t, seeds, reset) ==
    /\ Idle
    /\ Ensure("ensureTable", t, seeds, reset)

\* the success callback of ensureTable makes the same call once more
EnsureTableAgain ==
    /\ pending.op = "ensureTable"
    /\ pending.cb = "success"
    /\ Ensure("ensureTableAgain", pending.table, pending.list, pending.inId = 1)

\* the callback named by pending.cb is invoked with the payload of pending
Deliver ==
    /\ ~Idle
    /\ pending' = NoOp
    /\ snap' = NoSnap
    /\ UNCHANGED <<storeVars, compVars, sqlVars, auxVars>>

Init ==
    /\ connector \in Connectors
    /\ memory = <<>>
    /\ memSeq = [t \in Tables |-> 1]
    /\ localStorage = <<>>
    /\ localSeq = [t \in Tables |-> 1]
    /\ pending = NoOp
    /\ snap = NoSnap
    /\ cq = NullQuery
    /\ clauses = <<>>
    /\ cpc = "idle"
    /\ SqlIdle
    /\ AuxIdle

Next ==
    \/ \E t \in Tables, r \in InputRecords : Create(t, r)
    \/ \E t \in Tables, q \in Queries : Get(t, q)
    \/ \E t \in Tables, id \in 1..(MaxId + 1), p \in Partials :
          Update(t, id, p)
    \/ \E t \in Tables, q \in Queries : Remove(t, q)
    \/ \E t \in Tables : ClearTable(t)
    \/ \E t \in Tables, seeds \in SeedLists, reset \in BOOLEAN :
          EnsureTable(t, seeds, reset)
    \/ EnsureTableAgain
    \/ Deliver

Spec == Init /\ [][Next]_vars

----------------------------------------------------------------------------
(* The condition compiler on its own: a query is drawn, then compiled *)

CompilerKeys == {"foo", "baz", "qux", "fred"}

KeySeqs ==
    {ks \in UNION {[1..n -> CompilerKeys] : n \in 0..MaxKeys} :
        \A i, j \in 1..Len(ks) : i # j => ks[i] # ks[j]}

\* the i-th key carries a scalar, or a list of i elements
CompilerMaps ==
    UNION {{[i \in 1..Len(ks) |->
                IF f[i] THEN ListEntry(ks[i], [j \in 1..i |-> j])
                        ELSE ScalarEntry(ks[i], i)]
            : f \in [1..Len(ks) -> BOOLEAN]}
           : ks \in KeySeqs}

CompilerQueries == {NullQuery} \cup {MapQuery(m) : m \in CompilerMaps}

InitCompile ==
    /\ connector = "memory"
    /\ memory = <<>>
    /\ memSeq = [t \in Tables |-> 1]
    /\ localStorage = <<>>
    /\ localSeq = [t \in Tables |-> 1]
    /\ pending = NoOp
    /\ snap = NoSnap
    /\ cq \in CompilerQueries
    /\ clauses = <<>>
    /\ cpc = "idle"
    /\ SqlIdle
    /\ AuxIdle

CompileQuery ==
    /\ cpc = "idle"
    /\ clauses' = Compile(cq)
    /\ cpc' = "done"
    /\ UNCHANGED <<storeVars, pending, snap, cq, sqlVars, auxVars>>

NextCompile == CompileQuery

SpecCompile == InitCompile /\ [][NextCompile]_vars

----------------------------------------------------------------------------
(* Statement builder.  A record given to the SQL connector is a sequence   *)
(* of fields in insertion order; a statement is its text, a sequence of    *)
(* tokens, and the values bound to its placeholders.                       *)

Field(k, v) == [k |-> k, v |-> v]

Keys(rec) == [i \in 1..Len(rec) |-> rec[i].k]

Values(rec) == [i \in 1..Len(rec) |-> rec[i].v]

\* toks.join(', ')
RECURSIVE Commas(_)
Commas(toks) ==
    IF toks = <<>> THEN <<>>
    ELSE IF Len(toks) = 1 THEN toks
    ELSE <<Head(toks), ",">> \o Commas(Tail(toks))

\* one placeholder per value
Marks(n) == [i \in 1..n |-> "?"]

Statement(text, vals) == [text |-> text, vals |-> vals]

\* mutant: the id column is listed whether the record has an id or not
BuildInsertWithId(t, rec) ==
    Statement(<<"INSERT INTO", t, "(">>
              \o Commas(<<"id">> \o SelectSeq(Keys(rec), LAMBDA k : k # "id"))
              \o <<")", "VALUES", "(">>
              \o Commas(Marks(Len(SelectSeq(Keys(rec), LAMBDA k : k # "id")) + 1))
              \o <<")">>,
              Values(rec))

\* INSERT INTO <table> (<fields of the record>) VALUES (?, ...)
BuildInsert(t, rec) ==
    Statement(<<"INSERT INTO", t, "(">> \o Commas(Keys(rec))
              \o <<")", "VALUES", "(">> \o Commas(Marks(Len(rec))) \o <<")">>,
              Values(rec))

RECURSIVE Assignments(_)
Assignments(ks) ==
    IF ks = <<>> THEN <<>>
    ELSE IF Len(ks) = 1 THEN <<Head(ks), "=?">>
    ELSE <<Head(ks), "=?", ",">> \o Assignments(Tail(ks))

\* mutant: the id is bound before the values of the fields
BuildUpdateIdFirst(t, id, rec) ==
    Statement(<<"UPDATE", t, "SET">> \o Assignments(Keys(rec))
              \o <<"WHERE", "id", "=?">>,
              <<id>> \o Values(rec))

\* UPDATE <table> SET <field>=?, ... WHERE id=?
BuildUpdate(t, id, rec) ==
    Statement(<<"UPDATE", t, "SET">> \o Assignments(Keys(rec))
              \o <<"WHERE", "id", "=?">>,
              Append(Values(rec), id))

\* the clauses of a query: a scalar is the equality clause of the id
QueryClauses(q) == IF q.kind = "id" THEN <<EqClause("id", q.id)>> ELSE Compile(q)

ClauseText(c) ==
    IF c.op = "EQ" THEN <<c.field, "=?">>
    ELSE <<c.field, "IN", "(">> \o Commas(Marks(Len(c.vs))) \o <<")">>

ClauseVals(c) == IF c.op = "EQ" THEN <<c.v>> ELSE c.vs

RECURSIVE Conditions(_)
Conditions(cs) ==
    IF cs = <<>> THEN <<>>
    ELSE IF Len(cs) = 1 THEN ClauseText(Head(cs))
    ELSE ClauseText(Head(cs)) \o <<"AND">> \o Conditions(Tail(cs))

RECURSIVE Bound(_)
Bound(cs) == IF cs = <<>> THEN <<>> ELSE ClauseVals(Head(cs)) \o Bound(Tail(cs))

\* mutant: WHERE is written whether there is a clause or not
WhereAlways(cs) == <<"WHERE">> \o Conditions(cs)

\* the WHERE part: nothing without a clause
Where(cs) == IF cs = <<>> THEN <<>> ELSE <<"WHERE">> \o Conditions(cs)

BuildSelect(t, q) ==
    Statement(<<"SELECT * FROM", t>> \o Where(QueryClauses(q)),
              Bound(QueryClauses(q)))

BuildDelete(t, q) ==
    Statement(<<"DELETE FROM", t>> \o Where(QueryClauses(q)),
              Bound(QueryClauses(q)))

RECURSIVE Columns(_)
Columns(schema) ==
    IF schema = <<>> THEN <<>>
    ELSE <<",", Head(schema), "TEXT">> \o Columns(Tail(schema))

\* CREATE TABLE IF NOT EXISTS <table> (id INTEGER PRIMARY KEY AUTOINCREMENT, ...)
BuildCreateTable(t, schema) ==
    Statement(<<"CREATE TABLE IF NOT EXISTS", t, "(",
                "id INTEGER PRIMARY KEY AUTOINCREMENT">>
              \o Columns(schema) \o <<")">>,
              <<>>)

----------------------------------------------------------------------------
(* The SQL connector.  An operation hands db.transaction() a function that *)
(* issues its statements, a failure function and, for some operations, a   *)
(* completion function; the engine then runs the transaction, inside the   *)
(* call of db.transaction() or after it has returned.                      *)

SqlOps == {"create", "update", "get", "remove", "clearTable", "ensureTable"}

SqlTable == "testSQLTable"

SqlSchema == <<"foo", "baz">>

PERMISSION_DENIED == "permission-denied"
SQL_ERROR == "table-not-ready"
EngineErrors == {PERMISSION_DENIED, SQL_ERROR}

RECURSIVE Inserts(_, _)
Inserts(t, seeds) ==
    IF seeds = <<>> THEN <<>>
    ELSE <<BuildInsert(t, Head(seeds))>> \o Inserts(t, Tail(seeds))

\* mutant: the seeds are inserted before the table is cleared
StatementsInsertFirst(call) ==
    CASE call.op = "create" -> <<BuildInsert(call.table, call.rec)>>
      [] call.op = "update" -> <<BuildUpdate(call.table, call.id, call.rec)>>
      [] call.op = "get" -> <<BuildSelect(call.table, call.q)>>
      [] call.op = "remove" -> <<BuildDelete(call.table, call.q)>>
      [] call.op = "clearTable" -> <<BuildDelete(call.table, NullQuery)>>
      [] OTHER -> <<BuildCreateTable(call.table, SqlSchema)>>
                  \o Inserts(call.table, call.seeds)
                  \o (IF call.reset THEN <<BuildDelete(call.table, NullQuery)>>
                                    ELSE <<>>)

\* the statements the operation issues with tx.executeSql, in order
Statements(call) ==
    CASE call.op = "create" -> <<BuildInsert(call.table, call.rec)>>
      [] call.op = "update" -> <<BuildUpdate(call.table, call.id, call.rec)>>
      [] call.op = "get" -> <<BuildSelect(call.table, call.q)>>
      [] call.op = "remove" -> <<BuildDelete(call.table, call.q)>>
      [] call.op = "clearTable" -> <<BuildDelete(call.table, NullQuery)>>
      [] OTHER -> <<BuildCreateTable(call.table, SqlSchema)>>
                  \o (IF call.reset THEN <<BuildDelete(call.table, NullQuery)>>
                                    ELSE <<>>)
                  \o Inserts(call.table, call.seeds)

\* the success callback is called from the callback of the statement
OnStatement == {"create", "update", "get"}

\* the success callback is the completion function of the transaction
OnCommit == {"remove", "clearTable", "ensureTable"}

\* the statement is given an error callback, which calls the failure callback
WithStatementFailback == {"get"}

\* a callback of the operation is invoked now
Invoked == sqlEarly' = (sqlEarly \/ sqlInCall)

\* the engine is at work: inside the call, or once the call has returned
EngineRuns == sqlSync = sqlInCall

\* mutant: the operation opens a transaction of its own for every statement
SqlStartPerStatement(call, sync) ==
    /\ sqlPc = "idle"
    /\ sqlCall' = call
    /\ sqlSync' = sync
    /\ sqlPc' = "open"
    /\ sqlTx' = sqlTx + Len(Statements(call))
    /\ sqlInCall' = TRUE
    /\ UNCHANGED <<sqlQueue, sqlLog, sqlSuccess, sqlFailure, sqlEarly,
                   sqlErr, sqlRaised, sqlOutcome>>
    /\ UNCHANGED <<storeVars, pending, snap, compVars, auxVars>>

SqlStart(call, sync) ==
    /\ sqlPc = "idle"
    /\ sqlCall' = call
    /\ sqlSync' = sync
    /\ sqlPc' = "open"
    /\ sqlTx' = sqlTx + 1
    /\ sqlInCall' = TRUE
    /\ UNCHANGED <<sqlQueue, sqlLog, sqlSuccess, sqlFailure, sqlEarly,
                   sqlErr, sqlRaised, sqlOutcome>>
    /\ UNCHANGED <<storeVars, pending, snap, compVars, auxVars>>

\* the call of the operation returns to its caller
SqlReturn ==
    /\ sqlInCall
    /\ sqlSync => sqlPc = "done"
    /\ sqlInCall' = FALSE
    /\ UNCHANGED <<sqlCall, sqlSync, sqlPc, sqlQueue, sqlLog, sqlTx,
                   sqlSuccess, sqlFailure, sqlEarly, sqlErr, sqlRaised,
                   sqlOutcome>>
    /\ UNCHANGED <<storeVars, pending, snap, compVars, auxVars>>

\* mutant: a refused transaction is reported as done
TxRefuseSilent(e) ==
    /\ sqlPc = "open"
    /\ EngineRuns
    /\ sqlRaised' = e
    /\ sqlOutcome' = "failed"
    /\ sqlSuccess' = sqlSuccess + 1
    /\ Invoked
    /\ sqlPc' = "done"
    /\ UNCHANGED <<sqlCall, sqlSync, sqlQueue, sqlLog, sqlTx, sqlInCall,
                   sqlFailure, sqlErr>>
    /\ UNCHANGED <<storeVars, pending, snap, compVars, auxVars>>

\* the engine refuses the transaction: fb(error)
TxRefuse(e) ==
    /\ sqlPc = "open"
    /\ EngineRuns
    /\ sqlRaised' = e
    /\ sqlOutcome' = "failed"
    /\ sqlFailure' = sqlFailure + 1
    /\ sqlErr' = e
    /\ Invoked
    /\ sqlPc' = "done"
    /\ UNCHANGED <<sqlCall, sqlSync, sqlQueue, sqlLog, sqlTx, sqlInCall,
                   sqlSuccess>>
    /\ UNCHANGED <<storeVars, pending, snap, compVars, auxVars>>

\* the engine opens the transaction: cb(tx) issues the statements
TxBegin ==
    /\ sqlPc = "open"
    /\ EngineRuns
    /\ sqlQueue' = Statements(sqlCall)
    /\ sqlPc' = "run"
    /\ UNCHANGED <<sqlCall, sqlSync, sqlLog, sqlTx, sqlInCall, sqlSuccess,
                   sqlFailure, sqlEarly, sqlErr, sqlRaised, sqlOutcome>>
    /\ UNCHANGED <<storeVars, pending, snap, compVars, auxVars>>

\* a statement as executed, with the number of rows it touched
Executed(stmt, affected) ==
    [text |-> stmt.text, vals |-> stmt.vals, rows |-> affected]

\* the engine executes a statement, which touches `affected` rows:
\* cb2(tx, result); the callback of INSERT, UPDATE and SELECT calls the
\* success callback, that of UPDATE with the fields it was given
StmtOk(affected) ==
    /\ sqlPc = "run"
    /\ sqlQueue # <<>>
    /\ sqlLog' = Append(sqlLog, Executed(Head(sqlQueue), affected))
    /\ sqlQueue' = Tail(sqlQueue)
    /\ IF sqlCall.op \in OnStatement
       THEN sqlSuccess' = sqlSuccess + 1 /\ Invoked
       ELSE UNCHANGED <<sqlSuccess, sqlEarly>>
    /\ UNCHANGED <<sqlCall, sqlSync, sqlPc, sqlTx, sqlInCall, sqlFailure,
                   sqlErr, sqlRaised, sqlOutcome>>
    /\ UNCHANGED <<storeVars, pending, snap, compVars, auxVars>>

\* a statement fails: fb2(error) if the statement has an error callback;
\* unless that callback returned false the transaction is rolled back and
\* the engine reports it as failed: fb(error)
StmtFail(e, handled) ==
    /\ sqlPc = "run"
    /\ sqlQueue # <<>>
    /\ handled => sqlCall.op \in WithStatementFailback
    /\ LET own == IF sqlCall.op \in WithStatementFailback THEN 1 ELSE 0
       IN IF handled
          THEN /\ sqlFailure' = sqlFailure + own
               /\ sqlQueue' = Tail(sqlQueue)
               /\ UNCHANGED <<sqlPc, sqlOutcome>>
          ELSE /\ sqlFailure' = sqlFailure + own + 1
               /\ sqlQueue' = <<>>
               /\ sqlPc' = "done"
               /\ sqlOutcome' = "failed"
    /\ sqlRaised' = e
    /\ sqlErr' = e
    /\ Invoked
    /\ UNCHANGED <<sqlCall, sqlSync, sqlLog, sqlTx, sqlInCall, sqlSuccess>>
    /\ UNCHANGED <<storeVars, pending, snap, compVars, auxVars>>

\* every statement is through: the engine commits and calls the completion
\* function of the transaction
TxCommit ==
    /\ sqlPc = "run"
    /\ sqlQueue = <<>>
    /\ sqlPc' = "done"
    /\ sqlOutcome' = "committed"
    /\ IF sqlCall.op \in OnCommit
       THEN sqlSuccess' = sqlSuccess + 1 /\ Invoked
       ELSE UNCHANGED <<sqlSuccess, sqlEarly>>
    /\ UNCHANGED <<sqlCall, sqlSync, sqlQueue, sqlLog, sqlTx, sqlInCall,
                   sqlFailure, sqlErr, sqlRaised>>
    /\ UNCHANGED <<storeVars, pending, snap, compVars, auxVars>>

\* the operation is over and the next one may be called
SqlRest ==
    /\ sqlPc = "done"
    /\ ~sqlInCall
    /\ sqlCall' = NoCall
    /\ sqlSync' = FALSE
    /\ sqlPc' = "idle"
    /\ sqlQueue' = <<>>
    /\ sqlLog' = <<>>
    /\ sqlTx' = 0
    /\ sqlSuccess' = 0
    /\ sqlFailure' = 0
    /\ sqlEarly' = FALSE
    /\ sqlErr' = ""
    /\ sqlRaised' = ""
    /\ sqlOutcome' = ""
    /\ UNCHANGED sqlInCall
    /\ UNCHANGED <<storeVars, pending, snap, compVars, auxVars>>

(* Inputs of the SQL connector *)

SqlRecords ==
    {<<Field("foo", 1)>>,
     <<Field("foo", 1), Field("baz", 2)>>,
     <<Field("baz", 2), Field("foo", 1)>>,
     <<Field("id", 1), Field("foo", 1), Field("baz", 2)>>,
     <<Field("foo", 2), Field("id", 2)>>,
     <<Field("qux", 2), Field("foo", 1)>>}

SqlSeeds ==
    {<<Field("foo", 1), Field("baz", 2)>>,
     <<Field("id", 1), Field("foo", 1), Field("baz", 2), Field("qux", 1)>>,
     <<Field("baz", 1)>>}

SqlSeedLists == UNION {[1..n -> SqlSeeds] : n \in 0..MaxSeeds}

SqlQueries ==
    {NullQuery, IdQuery(1), MapQuery(<<>>),
     MapQuery(<<ScalarEntry("foo", 1), ScalarEntry("baz", 2)>>),
     MapQuery(<<ListEntry("foo", <<1, 2, 3>>), ScalarEntry("baz", 2)>>),
     MapQuery(<<ListEntry("id", <<1, 2>>), ListEntry("foo", <<1>>)>>)}

Call(op, rec, id, q, seeds, reset) ==
    [op |-> op, table |-> SqlTable, rec |-> rec, id |-> id, q |-> q,
     seeds |-> seeds, reset |-> reset]

SqlCalls ==
    {Call("create", r, 0, NullQuery, <<>>, FALSE) : r \in SqlRecords}
    \cup {Call("update", r, 3, NullQuery, <<>>, FALSE) : r \in SqlRecords}
    \cup {Call("get", <<>>, 0, q, <<>>, FALSE) : q \in SqlQueries}
    \cup {Call("remove", <<>>, 0, q, <<>>, FALSE) : q \in SqlQueries}
    \cup {Call("clearTable", <<>>, 0, NullQuery, <<>>, FALSE)}
    \cup {Call("ensureTable", <<>>, 0, NullQuery, seeds, reset) :
             seeds \in SqlSeedLists, reset \in BOOLEAN}

InitSQL == Init /\ connector = "memory"

NextSQL ==
    \/ \E call \in SqlCalls, sync \in BOOLEAN : SqlStart(call, sync)
    \/ SqlReturn
    \/ \E e \in EngineErrors : TxRefuse(e)
    \/ TxBegin
    \/ \E affected \in 0..1 : StmtOk(affected)
    \/ \E e \in EngineErrors, handled \in BOOLEAN : StmtFail(e, handled)
    \/ TxCommit
    \/ SqlRest

SpecSQL == InitSQL /\ [][NextSQL]_vars

----------------------------------------------------------------------------
(* A session of the facade: calls issued one at a time, from small inputs  *)

SessionRecords == {"a" :> 1, ("a" :> 2) @@ ("b" :> 1), ("id" :> 2) @@ ("a" :> 1)}

SessionPartials == {"b" :> 2, "a" :> 1}

SessionQueries == {NullQuery, IdQuery(1), MapQuery(<<ScalarEntry("a", 1)>>)}

SessionSeeds == {<<>>, <<"a" :> 2>>}

SessionCall ==
    \/ \E t \in Tables, r \in SessionRecords : Create(t, r)
    \/ \E t \in Tables, q \in SessionQueries : Get(t, q)
    \/ \E t \in Tables, id \in 1..MaxId, p \in SessionPartials :
          Update(t, id, p)
    \/ \E t \in Tables, q \in SessionQueries : Remove(t, q)
    \/ \E t \in Tables : ClearTable(t)
    \/ \E t \in Tables, seeds \in SessionSeeds, reset \in BOOLEAN :
          EnsureTable(t, seeds, reset)

(* Swapping the connector: Max.Storage.connector = c *)

\* mutant: the tables of the connector left behind are dropped
SwapConnectorDraining(c) ==
    /\ Idle
    /\ c # connector
    /\ connector' = c
    /\ left' = StoreOf(connector)
    /\ IF connector = "memory"
       THEN memory' = <<>> /\ UNCHANGED localStorage
       ELSE localStorage' = <<>> /\ UNCHANGED memory
    /\ UNCHANGED <<memSeq, localSeq, pending, snap, compVars, sqlVars,
                   shadow, writers, completed, raced, appVars>>

SwapConnector(c) ==
    /\ Idle
    /\ c # connector
    /\ connector' = c
    /\ left' = StoreOf(connector)
    /\ UNCHANGED <<memory, memSeq, localStorage, localSeq, pending, snap,
                   compVars, sqlVars, shadow, writers, completed, raced, appVars>>

\* the calls made between swaps
SwapCall ==
    \/ \E t \in Tables : Create(t, "a" :> 1)
    \/ \E t \in Tables : Get(t, NullQuery)
    \/ \E t \in Tables : Remove(t, IdQuery(1))
    \/ \E t \in Tables : ClearTable(t)

NextSwap ==
    \/ SwapCall
    \/ Deliver
    \/ \E c \in Connectors : SwapConnector(c)

SpecSwap == Init /\ [][NextSwap]_vars

(* The process ends and starts again: what lives in the process is gone,   *)
(* what localStorage holds is still there                                  *)

Restart ==
    /\ memory' = <<>>
    /\ memSeq' = [t \in Tables |-> 1]
    /\ localSeq' = [t \in Tables |-> 1]
    /\ pending' = NoOp
    /\ snap' = NoSnap
    /\ UNCHANGED <<connector, localStorage, compVars, sqlVars, auxVars>>

InitRestart == Init /\ connector = "local"

NextRestart ==
    \/ SessionCall
    \/ Deliver
    \/ Restart

SpecRestart == InitRestart /\ [][NextRestart]_vars

(* The same calls given to both connectors: each call goes to the          *)
(* in-memory connector first and then, with the same arguments, to the     *)
(* key-value connector                                                     *)

PairCall == connector = "memory" /\ SessionCall

\* keep what the in-memory connector delivered and turn to the other one
Mirror ==
    /\ connector = "memory"
    /\ ~Idle
    /\ shadow' = pending
    /\ pending' = NoOp
    /\ snap' = NoSnap
    /\ connector' = "local"
    /\ UNCHANGED <<memory, memSeq, localStorage, localSeq, compVars, sqlVars,
                   left, writers, completed, raced, appVars>>

\* the call, as it was given to the in-memory connector
Replay ==
    /\ connector = "local"
    /\ shadow # NoOp
    /\ CASE shadow.op = "create" -> Create(shadow.table, shadow.inRec)
         [] shadow.op = "get" -> Get(shadow.table, shadow.q)
         [] shadow.op = "update" ->
                Update(shadow.table, shadow.inId, shadow.inRec)
         [] shadow.op = "remove" -> Remove(shadow.table, shadow.q)
         [] shadow.op = "clearTable" -> ClearTable(shadow.table)
         [] OTHER -> EnsureTable(shadow.table, shadow.list, shadow.inId = 1)

\* both connectors have answered: on to the next call
Settle ==
    /\ connector = "local"
    /\ ~Idle
    /\ shadow' = NoOp
    /\ pending' = NoOp
    /\ snap' = NoSnap
    /\ connector' = "memory"
    /\ UNCHANGED <<memory, memSeq, localStorage, localSeq, compVars, sqlVars,
                   left, writers, completed, raced, appVars>>

InitPair == Init /\ connector = "memory"

NextPair ==
    \/ PairCall
    \/ Mirror
    \/ Replay
    \/ Settle

SpecPair == InitPair /\ [][NextPair]_vars

(* Writers of the key-value connector that share one key: each create      *)
(* reads the list of the table, and writes the list back with its record   *)
(* added                                                                   *)

MaxWrites == 3      \* creates the concurrent writers start

RaceTable == "T"

AtWork(w) == writers[w].pc = "read"

Started == completed + Cardinality({w \in Writers : AtWork(w)})

\* mutant: the writer adds its record to an empty list
WBeginBlind(w, r) ==
    /\ ~AtWork(w)
    /\ Started < MaxWrites
    /\ writers' = [writers EXCEPT ![w] =
                      [pc |-> "read", rows |-> <<>>,
                       rec |-> AssignId(r, Counter("local", RaceTable))]]
    /\ localSeq' = [localSeq EXCEPT ![RaceTable] = NextCounter(r, @)]
    /\ raced' = (raced \/ \E v \in Writers \ {w} : AtWork(v))
    /\ UNCHANGED <<connector, memory, memSeq, localStorage, pending, snap,
                   compVars, sqlVars, left, shadow, completed, appVars>>

\* JSON.parse(localStorage.getItem(table)), and the record to add
WBegin(w, r) ==
    /\ ~AtWork(w)
    /\ Started < MaxWrites
    /\ writers' = [writers EXCEPT ![w] =
                      [pc |-> "read", rows |-> RowsOrEmpty("local", RaceTable),
                       rec |-> AssignId(r, Counter("local", RaceTable))]]
    /\ localSeq' = [localSeq EXCEPT ![RaceTable] = NextCounter(r, @)]
    /\ raced' = (raced \/ \E v \in Writers \ {w} : AtWork(v))
    /\ UNCHANGED <<connector, memory, memSeq, localStorage, pending, snap,
                   compVars, sqlVars, left, shadow, completed, appVars>>

\* localStorage.setItem(table, JSON.stringify(rows)) of the list read
WEnd(w) ==
    /\ AtWork(w)
    /\ localStorage' =
          (RaceTable :> Stringify(Append(writers[w].rows, writers[w].rec)))
          @@ localStorage
    /\ writers' = [writers EXCEPT ![w] = Away]
    /\ completed' = completed + 1
    /\ UNCHANGED <<connector, memory, memSeq, localSeq, pending, snap,
                   compVars, sqlVars, left, shadow, raced, appVars>>

InitRace == Init /\ connector = "local"

NextRace ==
    \/ \E w \in Writers, r \in [{"a"} -> Vals] : WBegin(w, r)
    \/ \E w \in Writers : WEnd(w)

SpecRace == InitRace /\ [][NextRace]_vars

----------------------------------------------------------------------------
(* Channel operations.  Each one returns a promise and does its work in a  *)
(* setTimeout callback: checks, then a response handler and a stanza, or a *)
(* request.                                                                *)

SESSION_EXPIRED == "session expired"
NOT_CONNECTED == "not connected"
INVALID_CHANNEL_NAME == "invalid channel name"
INVALID_PUBLISH_PERMISSIONS == "invalid publish permissions"
INVALID_TAGS == "invalid tags"
FORBIDDEN == "forbidden"

\* the operations that talk to the server over the XMPP connection
XmppOps ==
    {"findChannels", "getAllSubscriptions", "getSummary", "getChannel",
     "getChannels", "getAllSubscribers", "subscribe", "unsubscribe",
     "publish", "getMessages", "getTags", "setTags", "inviteUsers", "delete"}

PublishPermissions == {"anyone", "owner", "subscribers"}

ChannelCallOf(op, isPublic, permissions, named, tags, owner, attachments) ==
    [op |-> op, pc |-> "timer", isPublic |-> isPublic,
     permissions |-> permissions, named |-> named, tags |-> tags,
     owner |-> owner, attachments |-> attachments,
     user |-> FALSE, conn |-> "null", outcome |-> ""]

\* the calls made: the arguments that an operation looks at vary
ChannelCalls ==
    {ChannelCallOf("create", p, perm, named, TRUE, TRUE, FALSE) :
        p \in {"true", "false", "undefined"},
        perm \in PublishPermissions \cup {"", "everyone"},
        named \in BOOLEAN}
    \cup {ChannelCallOf(op, "undefined", "", TRUE, TRUE, TRUE, FALSE) :
             op \in XmppOps}
    \cup {ChannelCallOf("setTags", "undefined", "", TRUE, FALSE, TRUE, FALSE),
          ChannelCallOf("inviteUsers", "undefined", "", TRUE, TRUE, FALSE, FALSE),
          ChannelCallOf("publish", "undefined", "", TRUE, TRUE, TRUE, TRUE)}

\* mutant: the connection is looked at before the session
RefusalConnectionFirst(call, user, conn) ==
    IF call.op \in XmppOps /\ conn # "connected" THEN NOT_CONNECTED
    ELSE IF ~user THEN SESSION_EXPIRED
    ELSE IF call.op = "create"
    THEN (IF ~call.named THEN INVALID_CHANNEL_NAME
          ELSE IF call.permissions \notin PublishPermissions \cup {""}
          THEN INVALID_PUBLISH_PERMISSIONS
          ELSE "")
    ELSE IF call.op = "setTags" /\ ~call.tags THEN INVALID_TAGS
    ELSE IF call.op = "inviteUsers" /\ ~call.owner THEN FORBIDDEN
    ELSE ""

\* the checks at the head of the callback: the error, or "" to go on
Refusal(call, user, conn) ==
    IF ~user THEN SESSION_EXPIRED
    ELSE IF call.op = "create"
    THEN (IF ~call.named THEN INVALID_CHANNEL_NAME
          ELSE IF call.permissions \notin PublishPermissions \cup {""}
          THEN INVALID_PUBLISH_PERMISSIONS
          ELSE "")
    ELSE IF conn # "connected" THEN NOT_CONNECTED
    ELSE IF call.op = "setTags" /\ ~call.tags THEN INVALID_TAGS
    ELSE IF call.op = "inviteUsers" /\ ~call.owner THEN FORBIDDEN
    ELSE ""

\* channelObj.privateChannel of Channel.create
PrivateChannel(isPublic) ==
    IF isPublic \in {"true", "false"} THEN isPublic = "false" ELSE FALSE

\* channelObj.publishPermission of Channel.create
PublishPermission(isPublic, permissions) ==
    IF permissions # "" THEN permissions
    ELSE IF isPublic = "true" THEN "anyone"
    ELSE "subscribers"

Sent(kind, call) ==
    [kind |-> kind, op |-> call.op,
     privateChannel |-> PrivateChannel(call.isPublic),
     publishPermission |-> PublishPermission(call.isPublic, call.permissions)]

\* the operation is called and returns its promise
ChannelCall(call) ==
    /\ chanCall.pc = "idle"
    /\ chanCall' = call
    /\ UNCHANGED <<mCurrentUser, mXMPPConnection, handlers, sent, store,
                   cacheOp, hatCredentials, cookies, logoutReq, loginReq, trace>>
    /\ UNCHANGED <<storeVars, pending, snap, compVars, sqlVars, left, shadow,
                   writers, completed, raced>>

\* the setTimeout callback of the operation
ChannelTimer ==
    /\ chanCall.pc = "timer"
    /\ LET e == Refusal(chanCall, mCurrentUser, mXMPPConnection)
           seen == [chanCall EXCEPT !.user = mCurrentUser,
                                    !.conn = mXMPPConnection]
       IN IF e # ""
          THEN /\ chanCall' = [seen EXCEPT !.pc = "settled", !.outcome = e]
               /\ UNCHANGED <<handlers, sent>>
          ELSE /\ chanCall' = [seen EXCEPT !.pc = "waiting"]
               /\ IF chanCall.op \in {"create", "inviteUsers"}
                     \/ (chanCall.op = "publish" /\ chanCall.attachments)
                  THEN /\ sent' = Append(sent, Sent("request", chanCall))
                       /\ UNCHANGED handlers
                  ELSE /\ handlers' = handlers + 1
                       /\ sent' = Append(sent, Sent("stanza", chanCall))
    /\ UNCHANGED <<mCurrentUser, mXMPPConnection, store, cacheOp,
                   hatCredentials, cookies, logoutReq, loginReq, trace>>
    /\ UNCHANGED <<storeVars, pending, snap, compVars, sqlVars, left, shadow,
                   writers, completed, raced>>

\* the server answers, or the request fails
ChannelSettle(ok) ==
    /\ chanCall.pc = "waiting"
    /\ chanCall' = [chanCall EXCEPT !.pc = "settled",
                       !.outcome = IF ok THEN "resolved" ELSE "rejected"]
    /\ UNCHANGED <<mCurrentUser, mXMPPConnection, handlers, sent, store,
                   cacheOp, hatCredentials, cookies, logoutReq, loginReq, trace>>
    /\ UNCHANGED <<storeVars, pending, snap, compVars, sqlVars, left, shadow,
                   writers, completed, raced>>

\* the promise has been looked at: the next operation may be called
ChannelRest ==
    /\ chanCall.pc = "settled"
    /\ chanCall' = NoChannelCall
    /\ handlers' = 0
    /\ sent' = <<>>
    /\ UNCHANGED <<mCurrentUser, mXMPPConnection, store, cacheOp,
                   hatCredentials, cookies, logoutReq, loginReq, trace>>
    /\ UNCHANGED <<storeVars, pending, snap, compVars, sqlVars, left, shadow,
                   writers, completed, raced>>

\* a user logs in or the session ends
SessionChanges ==
    /\ mCurrentUser' = ~mCurrentUser
    /\ UNCHANGED <<mXMPPConnection, chanCall, handlers, sent, store, cacheOp,
                   hatCredentials, cookies, logoutReq, loginReq, trace>>
    /\ UNCHANGED <<storeVars, pending, snap, compVars, sqlVars, left, shadow,
                   writers, completed, raced>>

\* the connection is made, lost or dropped
ConnectionChanges(c) ==
    /\ c # mXMPPConnection
    /\ mXMPPConnection' = c
    /\ UNCHANGED <<mCurrentUser, chanCall, handlers, sent, store, cacheOp,
                   hatCredentials, cookies, logoutReq, loginReq, trace>>
    /\ UNCHANGED <<storeVars, pending, snap, compVars, sqlVars, left, shadow,
                   writers, completed, raced>>

\* the application starts: nothing stored, nobody logged in, no connection
InitApp == Init /\ connector = "memory"

NextChannel ==
    \/ \E call \in ChannelCalls : ChannelCall(call)
    \/ ChannelTimer
    \/ \E ok \in BOOLEAN : ChannelSettle(ok)
    \/ ChannelRest
    \/ SessionChanges
    \/ \E c \in {"null", "disconnected", "connected"} : ConnectionChanges(c)

SpecChannel == InitApp /\ [][NextChannel]_vars

----------------------------------------------------------------------------
(* ChannelStore, the cache of channels.  A name is a sequence of letters.  *)

Names == {<<"C", "h">>, <<"c", "h">>, <<"c", "H">>, <<"n">>}

CacheChannels == [userId : {"", "u1"}, name : Names, tag : 1..2]

\* String.prototype.toLowerCase, letter by letter
LowerCase(ch) ==
    CASE ch = "C" -> "c"
      [] ch = "H" -> "h"
      [] ch = "N" -> "n"
      [] OTHER -> ch

ToLowerCase(name) == [i \in 1..Len(name) |-> LowerCase(name[i])]

\* mutant: the name is taken as it is written
getChannelIdExact(channel) ==
    <<IF channel.userId = "" THEN "*" ELSE channel.userId, "/">>
    \o channel.name

\* (channel.userId || '*') + '/' + channel.name.toLowerCase()
getChannelId(channel) ==
    <<IF channel.userId = "" THEN "*" ELSE channel.userId, "/">>
    \o ToLowerCase(channel.name)

\* this.store[this.getChannelId(channel)]
Lookup(st, channel) ==
    IF getChannelId(channel) \in DOMAIN st
    THEN [found |-> TRUE, value |-> st[getChannelId(channel)]]
    ELSE [found |-> FALSE, value |-> NoChannel]

CacheOp(op, channel, answer) ==
    [op |-> op, arg |-> channel, found |-> answer.found,
     result |-> answer.value]

Nothing == [found |-> FALSE, value |-> NoChannel]

cacheFrame ==
    /\ UNCHANGED <<mCurrentUser, mXMPPConnection, chanCall, handlers, sent,
                   hatCredentials, cookies, logoutReq, loginReq, trace>>
    /\ UNCHANGED <<storeVars, pending, snap, compVars, sqlVars, left, shadow,
                   writers, completed, raced>>

\* ChannelStore.add(channel)
StoreAdd(channel) ==
    /\ store' = (getChannelId(channel) :> channel) @@ store
    /\ cacheOp' = CacheOp("add", channel, Nothing)
    /\ cacheFrame

\* ChannelStore.add([channel, ...])
StoreAddAll(c1, c2) ==
    /\ store' = (getChannelId(c2) :> c2) @@ (getChannelId(c1) :> c1) @@ store
    /\ cacheOp' = CacheOp("addAll", c2, Nothing)
    /\ cacheFrame

\* ChannelStore.get(channel)
StoreGet(channel) ==
    /\ cacheOp' = CacheOp("get", channel, Lookup(store, channel))
    /\ UNCHANGED store
    /\ cacheFrame

\* ChannelStore.remove(channel)
StoreRemove(channel) ==
    /\ store' = [k \in DOMAIN store \ {getChannelId(channel)} |-> store[k]]
    /\ cacheOp' = CacheOp("remove", channel, Nothing)
    /\ cacheFrame

\* ChannelStore.clear()
StoreClear ==
    /\ store' = <<>>
    /\ cacheOp' = CacheOp("clear", NoChannel, Nothing)
    /\ cacheFrame

NextCache ==
    \/ \E c \in CacheChannels : StoreAdd(c)
    \/ \E c1, c2 \in {c \in CacheChannels : c.tag = 1} : StoreAddAll(c1, c2)
    \/ \E c \in CacheChannels : StoreGet(c)
    \/ \E c \in CacheChannels : StoreRemove(c)
    \/ StoreClear

SpecCache == InitApp /\ [][NextCache]_vars

----------------------------------------------------------------------------
(* The session of the user: login, logout and the cookies                  *)

AUTH_TOKEN == "magnet-max-auth-token"
REFRESH_TOKEN == "magnet-max-refresh-token"

userFrame ==
    /\ UNCHANGED <<chanCall, handlers, sent, store, cacheOp>>
    /\ UNCHANGED <<storeVars, pending, snap, compVars, sqlVars, left, shadow,
                   writers, completed, raced>>

\* MagnetJS.MMXClient.disconnect()
Disconnected == IF mXMPPConnection = "null" THEN "null" ELSE "disconnected"

\* User.login(userObj): disconnect, then the request
Login ==
    /\ loginReq = "none"
    /\ mXMPPConnection' = Disconnected
    /\ loginReq' = "login"
    /\ UNCHANGED <<mCurrentUser, hatCredentials, cookies, logoutReq, trace>>
    /\ userFrame

\* the success callback of the request of User.login
LoginSucceeds(remember) ==
    /\ loginReq = "login"
    /\ hatCredentials' = TRUE
    /\ mCurrentUser' = TRUE
    /\ cookies' = cookies \cup {AUTH_TOKEN}
                          \cup (IF remember THEN {REFRESH_TOKEN} ELSE {})
    /\ loginReq' = "connecting"
    /\ UNCHANGED <<mXMPPConnection, logoutReq, trace>>
    /\ userFrame

\* the failure callback of the request of User.login
LoginFails ==
    /\ loginReq = "login"
    /\ loginReq' = "none"
    /\ UNCHANGED <<mCurrentUser, mXMPPConnection, hatCredentials, cookies,
                   logoutReq, trace>>
    /\ userFrame

\* User.loginWithRefreshToken(): disconnect, then the request
LoginWithRefreshToken ==
    /\ loginReq = "none"
    /\ mXMPPConnection' = Disconnected
    /\ loginReq' = "refresh"
    /\ UNCHANGED <<mCurrentUser, hatCredentials, cookies, logoutReq, trace>>
    /\ userFrame

\* the callbacks of the request of User.loginWithRefreshToken
RefreshSettles(ok) ==
    /\ loginReq = "refresh"
    /\ IF ok
       THEN /\ hatCredentials' = TRUE
            /\ mCurrentUser' = TRUE
            /\ cookies' = cookies \cup {AUTH_TOKEN}
            /\ loginReq' = "connecting"
       ELSE /\ cookies' = cookies \ {REFRESH_TOKEN}
            /\ loginReq' = "none"
            /\ UNCHANGED <<mCurrentUser, hatCredentials>>
    /\ UNCHANGED <<mXMPPConnection, logoutReq, trace>>
    /\ userFrame

\* User.loginWithAccessToken(callback): the credentials come from the cookie
LoginWithAccessToken ==
    /\ loginReq = "none"
    /\ AUTH_TOKEN \in cookies
    /\ hatCredentials' = TRUE
    /\ loginReq' = "access"
    /\ UNCHANGED <<mCurrentUser, mXMPPConnection, cookies, logoutReq, trace>>
    /\ userFrame

\* getUserInfo() of User.loginWithAccessToken settles
AccessSettles(ok) ==
    /\ loginReq = "access"
    /\ IF ok
       THEN /\ mCurrentUser' = TRUE
            /\ loginReq' = "connecting"
       ELSE /\ loginReq' = "none"
            /\ UNCHANGED mCurrentUser
    /\ UNCHANGED <<mXMPPConnection, hatCredentials, cookies, logoutReq, trace>>
    /\ userFrame

\* MMXClient.registerDeviceAndConnect settles
Connects(ok) ==
    /\ loginReq = "connecting"
    /\ loginReq' = "none"
    /\ mXMPPConnection' = (IF ok THEN "connected" ELSE mXMPPConnection)
    /\ UNCHANGED <<mCurrentUser, hatCredentials, cookies, logoutReq, trace>>
    /\ userFrame

\* mutant: the session is cleared only when the request succeeds
LogoutSettlesKeeping(ok) ==
    /\ logoutReq = "sent"
    /\ logoutReq' = (IF ok THEN "resolved" ELSE "rejected")
    /\ IF ok
       THEN /\ mCurrentUser' = FALSE
            /\ hatCredentials' = FALSE
            /\ cookies' = cookies \ {AUTH_TOKEN}
            /\ trace' = Append(trace, "clearSession")
       ELSE UNCHANGED <<mCurrentUser, hatCredentials, cookies, trace>>
    /\ UNCHANGED <<mXMPPConnection, loginReq>>
    /\ userFrame

\* User.logout(): the cookie, the connection, then the request
Logout ==
    /\ logoutReq = "none"
    /\ cookies' = cookies \ {REFRESH_TOKEN}
    /\ mXMPPConnection' = Disconnected
    /\ logoutReq' = "sent"
    /\ trace' = <<"remove-refresh-token", "disconnect", "request">>
    /\ UNCHANGED <<mCurrentUser, hatCredentials, loginReq>>
    /\ userFrame

\* the request of logout settles: clearSession(), then resolve or reject
LogoutSettles(ok) ==
    /\ logoutReq = "sent"
    /\ logoutReq' = (IF ok THEN "resolved" ELSE "rejected")
    /\ mCurrentUser' = FALSE
    /\ hatCredentials' = FALSE
    /\ cookies' = cookies \ {AUTH_TOKEN}
    /\ trace' = Append(trace, "clearSession")
    /\ UNCHANGED <<mXMPPConnection, loginReq>>
    /\ userFrame

\* the promise of logout has been looked at
UserRest ==
    /\ logoutReq \in {"resolved", "rejected"}
    /\ logoutReq' = "none"
    /\ trace' = <<>>
    /\ UNCHANGED <<mCurrentUser, mXMPPConnection, hatCredentials, cookies,
                   loginReq>>
    /\ userFrame

NextUser ==
    \/ Login
    \/ \E remember \in BOOLEAN : LoginSucceeds(remember)
    \/ LoginFails
    \/ LoginWithRefreshToken
    \/ \E ok \in BOOLEAN : RefreshSettles(ok)
    \/ LoginWithAccessToken
    \/ \E ok \in BOOLEAN : AccessSettles(ok)
    \/ \E ok \in BOOLEAN : Connects(ok)
    \/ Logout
    \/ \E ok \in BOOLEAN : LogoutSettles(ok)
    \/ UserRest

SpecUser == InitApp /\ [][NextUser]_vars

----------------------------------------------------------------------------
(* What the data model says, stated without the code's operators *)

EntryHolds(rec, e) ==
    /\ e.k \in DOMAIN rec
    /\ IF e.list THEN \E i \in 1..Len(e.vs) : e.vs[i] = rec[e.k]
                 ELSE rec[e.k] = e.v

Satisfies(rec, q) ==
    CASE q.kind = "null" -> TRUE
      [] q.kind = "id" -> "id" \in DOMAIN rec /\ rec["id"] = q.id
      [] OTHER -> \A i \in 1..Len(q.map) : EntryHolds(rec, q.map[i])

NoneSatisfies(rows, q) == \A i \in 1..Len(rows) : ~Satisfies(rows[i], q)

Pos(m, k) == CHOOSE i \in 1..Len(m) : m[i].k = k

\* the rows of the table of the operation in flight, as they are now
Now == RowsOrEmpty(connector, pending.table)

Succeeded == pending.cb = "success" /\ pending.err = ""

FailedWith(e) == pending.cb = "failure" /\ pending.err = e

----------------------------------------------------------------------------
(* C1: create(T, r) of a record r without id, followed by get(T, returned  *)
(* id), returns exactly the fields and values of r plus the assigned id,   *)
(* on every backend.                                                       *)
C1_CreateThenGet ==
    (pending.op = "create" /\ Succeeded /\ ~Has(pending.inRec, "id")) =>
        LET id == pending.rec["id"]
        IN /\ GetKind(Now, IdQuery(id)) = "record"
           /\ GetRec(Now, IdQuery(id)) = Put(pending.inRec, "id", id)

(* C2: in every reachable state no two records of the same table have the  *)
(* same id.                                                                *)
C2_UniqueIds ==
    \A t \in Tables :
        LET rows == RowsOrEmpty(connector, t)
        IN \A i, j \in 1..Len(rows) : i # j => rows[i]["id"] # rows[j]["id"]

(* C3: get with a scalar id resolves with exactly one record or the absent *)
(* value and never with a list; get with a mapping or null resolves with a *)
(* list, which is empty when nothing matches.                              *)
C3_GetShape ==
    (pending.op = "get" /\ Succeeded) =>
        IF pending.q.kind = "id"
        THEN /\ pending.kind \in {"record", "absent"}
             /\ pending.list = <<>>
             /\ pending.kind = "record" =>
                   /\ \E i \in 1..Len(snap.rows) : snap.rows[i] = pending.rec
                   /\ pending.rec["id"] = pending.q.id
             /\ pending.kind = "absent" => pending.rec = NoRecord
        ELSE /\ pending.kind = "list"
             /\ pending.rec = NoRecord
             /\ NoneSatisfies(snap.rows, pending.q) => pending.list = <<>>

C3_Witness ==
    /\ pending.op = "get" /\ Succeeded
    /\ pending.q.kind = "id" /\ pending.kind = "record"
    /\ Len(snap.rows) = 2

(* C4: the compiled clause list places every equality clause before every  *)
(* membership clause, each group in the order of its keys in the mapping;  *)
(* every key yields its one clause; a null query compiles to no clause.    *)
C4_ClauseOrder ==
    cpc = "done" =>
        IF cq.kind = "null" THEN clauses = <<>>
        ELSE /\ Len(clauses) = Len(cq.map)
             /\ \A i \in 1..Len(cq.map) : \E j \in 1..Len(clauses) :
                   /\ clauses[j].field = cq.map[i].k
                   /\ clauses[j].op = (IF cq.map[i].list THEN "IN" ELSE "EQ")
                   /\ clauses[j].v = cq.map[i].v
                   /\ clauses[j].vs = cq.map[i].vs
             /\ \A i, j \in 1..Len(clauses) : i < j =>
                   /\ ~(clauses[i].op = "IN" /\ clauses[j].op = "EQ")
                   /\ clauses[i].op = clauses[j].op =>
                         Pos(cq.map, clauses[i].field)
                            < Pos(cq.map, clauses[j].field)

C4_Witness ==
    /\ cpc = "done" /\ cq.kind = "map" /\ Len(cq.map) = 3
    /\ cq.map[1].list /\ ~cq.map[2].list /\ cq.map[3].list

(* C5: update(T, id, partial) on an existing record resolves with the old  *)
(* record overridden and extended by partial, drops no stored field, and a *)
(* following get(T, id) returns that same post-merge record.               *)
C5_UpdateMerges ==
    (pending.op = "update" /\ Succeeded) =>
        LET old == snap.rows[CHOOSE i \in 1..Len(snap.rows) :
                                /\ snap.rows[i]["id"] = pending.inId
                                /\ \A j \in 1..(i - 1) :
                                      snap.rows[j]["id"] # pending.inId]
            new == pending.rec
        IN /\ DOMAIN new = DOMAIN old \cup DOMAIN pending.inRec
           /\ \A k \in DOMAIN pending.inRec : new[k] = pending.inRec[k]
           /\ \A k \in DOMAIN old \ DOMAIN pending.inRec : new[k] = old[k]
           /\ GetKind(Now, IdQuery(pending.inId)) = "record"
           /\ GetRec(Now, IdQuery(pending.inId)) = new

(* C6: update on a registered table that holds no record with the id fails *)
(* with record-not-exist, not through the success callback, and leaves the *)
(* records of the table unchanged.                                         *)
C6_UpdateMissingRecord ==
    (/\ pending.op = "update" /\ snap.reg
     /\ \A i \in 1..Len(snap.rows) : snap.rows[i]["id"] # pending.inId) =>
        /\ FailedWith(RECORD_NOT_EXIST)
        /\ Registered(connector, pending.table)
        /\ Now = snap.rows

C6_Witness ==
    /\ pending.op = "update" /\ snap.reg /\ snap.rows # <<>>
    /\ \A i \in 1..Len(snap.rows) : snap.rows[i]["id"] # pending.inId

(* C7: get, update and remove on a table name that was never registered    *)
(* fail with table-not-exist, not through the success callback, and do not *)
(* register the table.                                                     *)
C7_UnregisteredTable ==
    (pending.op \in {"get", "update", "remove"} /\ ~snap.reg) =>
        /\ FailedWith(TABLE_NOT_EXIST)
        /\ ~Registered(connector, pending.table)

C7_Witness ==
    /\ pending.op = "remove" /\ ~snap.reg
    /\ \E t \in Tables : Registered(connector, t)

(* C8 as claimed: clearTable on a table name that is not registered fails  *)
(* with table-not-exist and does not create the table.                     *)
C8_ClearUnregisteredFails ==
    (pending.op = "clearTable" /\ ~snap.reg) =>
        /\ FailedWith(TABLE_NOT_EXIST)
        /\ ~Registered(connector, pending.table)

(* C8 as amended: clearTable on a table name that is not registered        *)
(* succeeds and registers the table with no record.                        *)
C8_ClearUnregisteredSucceeds ==
    (pending.op = "clearTable" /\ ~snap.reg) =>
        /\ Succeeded
        /\ Registered(connector, pending.table)
        /\ Now = <<>>

C8_Witness == pending.op = "clearTable" /\ ~snap.reg

(* C9: clearTable on a registered table removes every record and keeps the *)
(* table registered, so that get(T, null) resolves with the empty list; it *)
(* succeeds as well on a table that is already empty.                      *)
C9_ClearRegistered ==
    (pending.op = "clearTable" /\ snap.reg) =>
        /\ Succeeded
        /\ Registered(connector, pending.table)
        /\ Now = <<>>
        /\ GetKind(Now, NullQuery) = "list"
        /\ GetList(Now, NullQuery) = <<>>

C9_Witness ==
    pending.op = "clearTable" /\ snap.reg /\ Len(snap.rows) = 2

(* C10: remove on a registered table where no record matches succeeds and  *)
(* leaves the records of the table and their order unchanged.              *)
C10_RemoveNoMatch ==
    (/\ pending.op = "remove" /\ snap.reg
     /\ NoneSatisfies(snap.rows, pending.q)) =>
        /\ Succeeded
        /\ Registered(connector, pending.table)
        /\ Now = snap.rows

C10_Witness ==
    /\ pending.op = "remove" /\ snap.reg /\ Len(snap.rows) = 2
    /\ snap.rows[1] # snap.rows[2]
    /\ pending.q.kind = "map"
    /\ NoneSatisfies(snap.rows, pending.q)

(* More of the data model, stated without the code's operators *)

\* the rows without the one at position i
Without(rows, i) == [j \in 1..(Len(rows) - 1) |->
                        IF j < i THEN rows[j] ELSE rows[j + 1]]

Chosen(rows, q) == SelectSeq(rows, LAMBDA r : Satisfies(r, q))

Spared(rows, q) == SelectSeq(rows, LAMBDA r : ~Satisfies(r, q))

\* a record without its id
Body(rec) == [k \in DOMAIN rec \ {"id"} |-> rec[k]]

(* C11: remove(T, id) with a scalar id deletes exactly the record with     *)
(* that id: afterwards get(T, id) is absent and every other record of T is *)
(* still there, unchanged and in the same relative order.                  *)
C11_RemoveById ==
    (pending.op = "remove" /\ Succeeded /\ pending.q.kind = "id") =>
        /\ GetKind(Now, pending.q) = "absent"
        /\ IF \E i \in 1..Len(snap.rows) : snap.rows[i]["id"] = pending.q.id
           THEN \E i \in 1..Len(snap.rows) :
                   /\ snap.rows[i]["id"] = pending.q.id
                   /\ Now = Without(snap.rows, i)
           ELSE Now = snap.rows

(* C12: remove(T, mapping) deletes all and only the records that satisfy   *)
(* every field condition of the mapping; the records that fail a condition *)
(* remain, in their order.                                                 *)
C12_RemoveByMapping ==
    (pending.op = "remove" /\ Succeeded /\ pending.q.kind = "map") =>
        Now = Spared(snap.rows, pending.q)

C12_Witness ==
    /\ pending.op = "remove" /\ Succeeded /\ pending.q.kind = "map"
    /\ Len(pending.q.map) = 2
    /\ Len(snap.rows) = 2
    /\ Satisfies(snap.rows[1], pending.q)
    /\ ~Satisfies(snap.rows[2], pending.q)

(* C13: get(T, mapping) resolves with exactly the records that satisfy     *)
(* every field condition and get(T, null) with all records, in insertion   *)
(* order: the order of the table, at whose end create puts a new record.   *)
C13_GetByMapping ==
    /\ (pending.op = "get" /\ Succeeded /\ pending.q.kind # "id") =>
          pending.list = Chosen(snap.rows, pending.q)
    /\ (pending.op = "create" /\ Succeeded) =>
          Now = Append(snap.rows, pending.rec)

C13_Witness ==
    /\ pending.op = "get" /\ Succeeded /\ pending.q.kind = "map"
    /\ Len(pending.list) = 2
    /\ pending.list[1] # pending.list[2]

(* C14: ensureTable is idempotent: called a second time on the same table  *)
(* with the same arguments and resetExisting false it does not fail, and   *)
(* the table holds the same rows after the second call as after the first. *)
C14_EnsureIdempotent ==
    (pending.op = "ensureTableAgain" /\ pending.inId = 0) =>
        /\ Succeeded
        /\ Now = snap.rows

(* C15: after ensureTable(T, schema, seeds, true) succeeds, whatever T     *)
(* held before, T holds exactly the seed records, one per seed, in the     *)
(* given order, each with an id (its own, or an assigned one).             *)
C15_ResetThenSeed ==
    (/\ pending.op \in {"ensureTable", "ensureTableAgain"}
     /\ pending.inId = 1 /\ Succeeded) =>
        /\ Len(Now) = Len(pending.list)
        /\ \A i \in 1..Len(Now) :
              /\ "id" \in DOMAIN Now[i]
              /\ Body(Now[i]) = Body(pending.list[i])
              /\ "id" \in DOMAIN pending.list[i] =>
                    Now[i]["id"] = pending.list[i]["id"]

C15_Witness ==
    /\ pending.op = "ensureTable" /\ pending.inId = 1 /\ Succeeded
    /\ Len(pending.list) = 2
    /\ pending.list[1] # pending.list[2]
    /\ snap.rows # <<>>

(* C16: create(T, r) with a record that carries an id resolves with a      *)
(* record of that id and get(T, that id) returns the created record; the   *)
(* id of the caller is never replaced.                                     *)
C16_SuppliedIdKept ==
    (pending.op = "create" /\ Succeeded /\ "id" \in DOMAIN pending.inRec) =>
        /\ pending.rec = pending.inRec
        /\ GetKind(Now, IdQuery(pending.inRec["id"])) = "record"
        /\ GetRec(Now, IdQuery(pending.inRec["id"])) = pending.inRec

(* C17: on the in-memory connector the id that create (or a seed of        *)
(* ensureTable) assigns is at least the table's counter and the counter is *)
(* then beyond it, and no counter ever goes down: an assigned id is        *)
(* greater than every id assigned before in the table, also after removes. *)
C17_MonotonicIds ==
    [][/\ \A t \in Tables : memSeq'[t] >= memSeq[t]
       /\ (/\ connector = "memory" /\ pending'.op = "create"
           /\ "id" \notin DOMAIN pending'.inRec) =>
             /\ pending'.rec["id"] >= memSeq[pending'.table]
             /\ pending'.rec["id"] < memSeq'[pending'.table]
       /\ (/\ connector = "memory"
           /\ pending'.op \in {"ensureTable", "ensureTableAgain"}) =>
             \A i \in 1..Len(pending'.list) :
                "id" \notin DOMAIN pending'.list[i] =>
                   LET rows == memory'[pending'.table]
                       k == Len(rows) - Len(pending'.list) + i
                   IN /\ rows[k]["id"] >= memSeq[pending'.table]
                      /\ rows[k]["id"] < memSeq'[pending'.table]
                      /\ \A j \in 1..(i - 1) :
                            "id" \notin DOMAIN pending'.list[j] =>
                               rows[k - i + j]["id"] < rows[k]["id"]
      ]_vars

C17_Witness ==
    /\ connector = "memory" /\ pending.op = "create"
    /\ "id" \notin DOMAIN pending.inRec
    /\ pending.rec["id"] = MaxId
    /\ snap.reg /\ snap.rows = <<>>

C19_ExactlyOnce ==
    /\ sqlSuccess + sqlFailure <= 1
    /\ sqlPc = "done" => sqlSuccess + sqlFailure = 1

----------------------------------------------------------------------------
(* Claim-side vocabulary for the SQL connector *)

\* the statements of the operation in flight: executed, then still to run
Issued == [i \in 1..Len(sqlLog) |-> Statement(sqlLog[i].text, sqlLog[i].vals)]
          \o sqlQueue

Count(seq, tok) == Len(SelectSeq(seq, LAMBDA t : t = tok))

Mentions(seq, tok) == \E i \in 1..Len(seq) : seq[i] = tok

\* the tokens of a text from position n on
From(seq, n) == [i \in 1..(Len(seq) - n + 1) |-> seq[i + n - 1]]

Verb(stmt) == Head(stmt.text)

Punctuation == {"(", ")", ",", "?", "VALUES"}

\* the column names an INSERT lists
Listed(stmt) == SelectSeq(From(stmt.text, 3), LAMBDA t : t \notin Punctuation)

InFlight == sqlPc \in {"run", "done"}

----------------------------------------------------------------------------
(* C25: every operation of the SQL connector opens exactly one             *)
(* transaction, whatever statements it issues and however it ends.         *)

C25_OneTransaction == sqlPc # "idle" => sqlTx = 1

C25_Witness ==
    /\ sqlCall.op = "ensureTable"
    /\ sqlPc = "done"
    /\ sqlOutcome = "committed"
    /\ Len(sqlLog) = 4
    /\ sqlTx = 1

----------------------------------------------------------------------------
(* C26: ensureTable of the SQL connector issues CREATE TABLE IF NOT        *)
(* EXISTS, then DELETE only when reset is set, then exactly one INSERT per *)
(* seed, in the order of the seeds, all in one transaction.                *)

C26_EnsureOrder ==
    (sqlCall.op = "ensureTable" /\ InFlight /\ sqlOutcome # "failed") =>
        LET d == IF sqlCall.reset THEN 1 ELSE 0
        IN /\ sqlTx = 1
           /\ Len(Issued) = 1 + d + Len(sqlCall.seeds)
           /\ Verb(Issued[1]) = "CREATE TABLE IF NOT EXISTS"
           /\ sqlCall.reset =>
                  Issued[2].text = <<"DELETE FROM", sqlCall.table>>
           /\ \A i \in 1..Len(sqlCall.seeds) :
                  /\ Verb(Issued[1 + d + i]) = "INSERT INTO"
                  /\ Listed(Issued[1 + d + i]) = Keys(sqlCall.seeds[i])
                  /\ Issued[1 + d + i].vals = Values(sqlCall.seeds[i])

C26_Witness ==
    /\ sqlCall.op = "ensureTable"
    /\ sqlCall.reset
    /\ Len(sqlCall.seeds) = 2
    /\ sqlCall.seeds[1] # sqlCall.seeds[2]
    /\ sqlOutcome = "committed"
    /\ Len(sqlLog) = 4

----------------------------------------------------------------------------
(* C27: when the engine fails the transaction of an operation of the SQL   *)
(* connector, the operation hands the error of the engine to the failure   *)
(* callback and never calls the success callback.                          *)

----------------------------------------------------------------------------
(* C28: an update of the SQL connector whose transaction succeeds but      *)
(* whose id matches no row is reported to the failure callback as          *)
(* record-not-exist, and not as a success with the fields given.           *)

----------------------------------------------------------------------------
(* C29: the INSERT of a create lists exactly the fields of the record, in  *)
(* the order the record has them, with one placeholder per field; the id   *)
(* column is listed only when the caller supplied an id.                   *)

C29_InsertColumns ==
    (sqlCall.op = "create" /\ InFlight /\ Issued # <<>>) =>
        LET st == Issued[1] IN
        /\ Verb(st) = "INSERT INTO"
        /\ st.text[2] = sqlCall.table
        /\ Listed(st) = Keys(sqlCall.rec)
        /\ Count(st.text, "?") = Len(sqlCall.rec)
        /\ Count(st.text, ",") = 2 * (Len(sqlCall.rec) - 1)
        /\ st.vals = Values(sqlCall.rec)
        /\ Mentions(st.text, "id") <=> Mentions(Keys(sqlCall.rec), "id")

C29_Witness ==
    /\ sqlCall.op = "create"
    /\ sqlPc = "done"
    /\ Len(sqlLog) = 1
    /\ Len(sqlCall.rec) = 2
    /\ ~Mentions(Keys(sqlCall.rec), "id")
    /\ ~Mentions(sqlLog[1].text, "id")

----------------------------------------------------------------------------
(* C30: a SELECT or DELETE carries a WHERE part exactly when there is a    *)
(* filter: none for a null query and for clearTable, `WHERE id=?` for a    *)
(* scalar id, and for a mapping its clauses joined by AND, an equality as  *)
(* `field=?` and a membership as `field IN (...)` with one placeholder per *)
(* element of the list.                                                    *)

Filtered(call) ==
    /\ call.op # "clearTable"
    /\ \/ call.q.kind = "id"
       \/ call.q.kind = "map" /\ call.q.map # <<>>

\* the text of a clause of the mapping, where the WHERE part has it
EntryText(e) ==
    IF e.list
    THEN <<e.k, "IN", "(">> \o Commas([i \in 1..Len(e.vs) |-> "?"]) \o <<")">>
    ELSE <<e.k, "=?">>

Contains(seq, part) ==
    \E n \in 0..(Len(seq) - Len(part)) :
        \A i \in 1..Len(part) : seq[n + i] = part[i]

C30_WherePart ==
    (sqlCall.op \in {"get", "remove", "clearTable"} /\ InFlight
        /\ Issued # <<>>) =>
        LET st == Issued[1]
            q == sqlCall.q
        IN /\ Verb(st) = (IF sqlCall.op = "get" THEN "SELECT * FROM"
                                               ELSE "DELETE FROM")
           /\ st.text[2] = sqlCall.table
           /\ Mentions(st.text, "WHERE") <=> Filtered(sqlCall)
           /\ ~Filtered(sqlCall) => Len(st.text) = 2 /\ st.vals = <<>>
           /\ (sqlCall.op # "clearTable" /\ q.kind = "id") =>
                  /\ From(st.text, 3) = <<"WHERE", "id", "=?">>
                  /\ st.vals = <<q.id>>
           /\ (sqlCall.op # "clearTable" /\ q.kind = "map" /\ q.map # <<>>) =>
                  /\ st.text[3] = "WHERE"
                  /\ Count(st.text, "AND") = Len(q.map) - 1
                  /\ \A i \in 1..Len(q.map) :
                         Contains(From(st.text, 4), EntryText(q.map[i]))
                  /\ Count(st.text, "?") + Count(st.text, "=?")
                         = Len(st.vals)

C30_Witness ==
    /\ sqlCall.op = "remove"
    /\ sqlPc = "done"
    /\ Len(sqlLog) = 1
    /\ sqlLog[1].text = <<"DELETE FROM", "testSQLTable", "WHERE", "baz", "=?",
                          "AND", "foo", "IN", "(", "?", ",", "?", ",", "?", ")">>
    /\ sqlLog[1].vals = <<2, 1, 2, 3>>

----------------------------------------------------------------------------
(* C21: swapping the connector of the facade changes no table of the       *)
(* connector left behind; the calls made after the swap neither read nor   *)
(* write its tables, and when the facade is swapped back the tables are as *)
(* they were left.                                                         *)

C21_SwapFrame ==
    /\ StoreOf(Other(connector)) = left
    /\ (pending.op = "get" /\ snap.reg) =>
           /\ Succeeded
           /\ pending.list = (IF pending.q.kind = "id" THEN <<>>
                              ELSE Chosen(Rows(connector, pending.table),
                                          pending.q))
    /\ (pending.op = "get" /\ ~snap.reg) =>
           ~Registered(connector, pending.table)

C21_Witness ==
    /\ connector = "memory"
    /\ pending.op = "get" /\ pending.q.kind = "null" /\ pending.table = "T"
    /\ Len(pending.list) = 2
    /\ Registered("local", "T")
    /\ Len(Rows("local", "T")) = 1
    /\ left.tables # <<>>
    /\ memSeq["T"] > 1

----------------------------------------------------------------------------
(* C22: for every sequence of calls issued one at a time, the in-memory    *)
(* connector and the key-value connector deliver the same outcome: success *)
(* or the same error, with the same records.                               *)

----------------------------------------------------------------------------
(* C23: on the key-value connector, after a mutating operation completes   *)
(* the blob of the table deserializes to the full current record list of   *)
(* the table; after a restart of the process, which discards what the      *)
(* process held, get returns the same records.                             *)

\* position of the first record with the id
FirstAt(rows, id) ==
    CHOOSE i \in 1..Len(rows) :
        /\ Satisfies(rows[i], IdQuery(id))
        /\ \A j \in 1..(i - 1) : ~Satisfies(rows[j], IdQuery(id))

\* the records of the table after the successful operation in flight
Current ==
    CASE pending.op = "create" -> Append(snap.rows, pending.rec)
      [] pending.op = "update" ->
             [snap.rows EXCEPT ![FirstAt(snap.rows, pending.inId)] = pending.rec]
      [] pending.op = "remove" -> Spared(snap.rows, pending.q)
      [] pending.op = "clearTable" -> <<>>
      [] OTHER -> JsonParse(localStorage[pending.table])

Mutating == {"create", "update", "remove", "clearTable"}

C23_BlobHoldsTable ==
    /\ [](( /\ connector = "local"
            /\ pending.op \in Mutating
            /\ Succeeded ) =>
              /\ pending.table \in DOMAIN localStorage
              /\ JsonParse(localStorage[pending.table]) = Current)
    /\ [][Restart =>
            \A t \in Tables :
               /\ Registered("local", t)' = Registered("local", t)
               /\ \A q \in SessionQueries :
                     /\ GetKind(RowsOrEmpty("local", t), q)'
                           = GetKind(RowsOrEmpty("local", t), q)
                     /\ GetRec(RowsOrEmpty("local", t), q)'
                           = GetRec(RowsOrEmpty("local", t), q)
                     /\ GetList(RowsOrEmpty("local", t), q)'
                           = GetList(RowsOrEmpty("local", t), q)]_vars

C23_Witness ==
    /\ connector = "local"
    /\ pending.op = "get" /\ pending.q.kind = "null" /\ Succeeded
    /\ Len(pending.list) = 2
    /\ localSeq[pending.table] = 1
    /\ \E i \in 1..2 : pending.list[i]["id"] = 1 /\ "b" \in DOMAIN pending.list[i]

----------------------------------------------------------------------------
(* C24: the key-value connector is not safe under concurrent writers: when *)
(* the read, modify and write-back of two writers interleave, an update is *)
(* lost; with one writer at a time no completed mutation is lost.          *)

\* a create that completed is missing from the table
Lost == Len(RowsOrEmpty("local", RaceTable)) < completed

C24_LostOnlyWhenRaced == Lost => raced

C24_Witness ==
    /\ Lost
    /\ raced
    /\ completed = 2
    /\ \A w \in Writers : ~AtWork(w)

----------------------------------------------------------------------------
(* C31: the UPDATE of update(T, id, partial) sets exactly the fields of    *)
(* partial, in the order partial has them, as `field=?`, ends with         *)
(* `WHERE id=?`, and binds the id last, after the values of the fields in  *)
(* the same order.                                                         *)

\* the tokens of a text from position a to position b
Between(seq, a, b) == [i \in 1..(b - a + 1) |-> seq[i + a - 1]]

C31_UpdateText ==
    (sqlCall.op = "update" /\ InFlight /\ Issued # <<>>) =>
        LET st == Issued[1]
            n == Len(st.text)
            set == Between(st.text, 4, n - 3)
        IN /\ Between(st.text, 1, 3) = <<"UPDATE", sqlCall.table, "SET">>
           /\ Between(st.text, n - 2, n) = <<"WHERE", "id", "=?">>
           /\ SelectSeq(set, LAMBDA t : t \notin {"=?", ","}) = Keys(sqlCall.rec)
           /\ Count(set, "=?") = Len(sqlCall.rec)
           /\ Count(set, ",") = Len(sqlCall.rec) - 1
           /\ Len(st.vals) = Len(sqlCall.rec) + 1
           /\ \A i \in 1..Len(sqlCall.rec) : st.vals[i] = sqlCall.rec[i].v
           /\ st.vals[Len(st.vals)] = sqlCall.id

C31_Witness ==
    /\ sqlCall.op = "update"
    /\ sqlPc = "done"
    /\ Len(sqlLog) = 1
    /\ sqlLog[1].text = <<"UPDATE", "testSQLTable", "SET", "foo", "=?", ",",
                          "baz", "=?", "WHERE", "id", "=?">>
    /\ sqlLog[1].vals = <<1, 2, 3>>

----------------------------------------------------------------------------
(* C32: on the SQL connector a field of a created, seeded or updated       *)
(* record that is not a column of the declared schema of the table is      *)
(* dropped at persistence time: no statement hands it to the engine, and   *)
(* the operation still succeeds.                                           *)

Declared(k) == k = "id" \/ Mentions(SqlSchema, k)

\* the columns an INSERT or UPDATE writes
Written(stmt) ==
    IF Verb(stmt) = "INSERT INTO" THEN Listed(stmt)
    ELSE IF Verb(stmt) = "UPDATE"
    THEN SelectSeq(Between(stmt.text, 4, Len(stmt.text) - 3),
                   LAMBDA t : t \notin {"=?", ","})
    ELSE <<>>

C32_UndeclaredDropped ==
    (sqlCall.op \in {"create", "update", "ensureTable"} /\ InFlight) =>
        \A i \in 1..Len(Issued) :
            \A j \in 1..Len(Written(Issued[i])) : Declared(Written(Issued[i])[j])

----------------------------------------------------------------------------
(* C34: a storage operation that completes through its failure callback    *)
(* leaves the records of every table and the set of registered tables as   *)
(* they were before the operation.                                         *)

\* an operation of the facade is carried out in this step
Called == pending' # pending /\ pending' # NoOp

----------------------------------------------------------------------------
(* C35: create, update, remove, clearTable and ensureTable on a table      *)
(* leave the records of every other table of the connector unchanged; get  *)
(* changes neither the records of a table nor the set of registered        *)
(* tables.                                                                 *)

C35_OtherTablesUntouched ==
    [][Called =>
          /\ \A c \in Connectors, u \in Tables \ {pending'.table} :
                /\ Registered(c, u)' = Registered(c, u)
                /\ RowsOrEmpty(c, u)' = RowsOrEmpty(c, u)
          /\ pending'.op = "get" =>
                /\ memory' = memory
                /\ localStorage' = localStorage]_vars

C35_Witness ==
    /\ pending.op = "remove" /\ Succeeded
    /\ snap.rows # <<>>
    /\ Now = <<>>
    /\ \E u \in Tables \ {pending.table} :
          Registered(connector, u) /\ Rows(connector, u) # <<>>

----------------------------------------------------------------------------
(* C36: update(T, id, partial) never changes the id of the record it       *)
(* updates: the record it resolves with has the id of the call, also when  *)
(* partial has an id field of another value, so update cannot make two     *)
(* records of T share an id.                                               *)

C36_UpdateKeepsId ==
    (pending.op = "update" /\ Succeeded) =>
        /\ pending.rec["id"] = pending.inId
        /\ GetKind(Now, IdQuery(pending.inId)) = "record"
        /\ GetRec(Now, IdQuery(pending.inId))["id"] = pending.inId

----------------------------------------------------------------------------
(* C37: on the schema-less connectors create on a table name that was      *)
(* never given to ensureTable succeeds and registers the table, and get on *)
(* that table then returns the record: create never fails with             *)
(* table-not-exist.                                                        *)

C37_CreateRegisters ==
    /\ pending.op = "create" => ~FailedWith(TABLE_NOT_EXIST)
    /\ (pending.op = "create" /\ ~snap.reg) =>
           /\ Succeeded
           /\ Registered(connector, pending.table)
           /\ GetKind(Now, NullQuery) = "list"
           /\ GetList(Now, NullQuery) = <<pending.rec>>
           /\ GetRec(Now, IdQuery(pending.rec["id"])) = pending.rec

C37_Witness ==
    /\ pending.op = "create" /\ ~snap.reg /\ Succeeded
    /\ Now = <<pending.rec>>
    /\ \E u \in Tables \ {pending.table} : Registered(connector, u)

\* the requests of Channel.create that are on their way
CreateRequests == {i \in 1..Len(sent) : sent[i].op = "create"}

\* C33: Channel.create called without publishPermissions sends publish
\* permission 'anyone' when the channel is public - and it is public when
\* isPublic is omitted - and 'subscribers' only when the channel is private.
C33_DefaultPermission ==
    \A i \in CreateRequests :
        /\ chanCall.isPublic = "undefined" => ~sent[i].privateChannel
        /\ chanCall.permissions = ""
              => sent[i].publishPermission
                    = (IF sent[i].privateChannel THEN "subscribers" ELSE "anyone")

\* the callback of the operation has run and refused to go on
Refused == chanCall.op \in XmppOps /\ chanCall.pc = "settled"

Untouched == handlers = 0 /\ sent = <<>>

\* C38: each of the fourteen channel operations rejects with SESSION_EXPIRED
\* when there is no current user, whatever the connection is; with a user
\* but no connection it rejects with NOT_CONNECTED; in both cases no response
\* handler is registered and nothing is sent.
C38_SessionBeforeConnection ==
    /\ (Refused /\ ~chanCall.user)
          => (chanCall.outcome = SESSION_EXPIRED /\ Untouched)
    /\ (Refused /\ chanCall.user /\ chanCall.conn # "connected")
          => (chanCall.outcome = NOT_CONNECTED /\ Untouched)

C38_Witness ==
    /\ Refused
    /\ chanCall.op = "publish"
    /\ ~chanCall.user
    /\ chanCall.conn = "disconnected"
    /\ chanCall.outcome = SESSION_EXPIRED

\* upper case, letter by letter
Capital(ch) ==
    CASE ch = "c" -> "C"
      [] ch = "h" -> "H"
      [] ch = "n" -> "N"
      [] OTHER -> ch

\* the same owner, and the same name if case is ignored
SameKey(c, d) ==
    /\ c.userId = d.userId
    /\ Len(c.name) = Len(d.name)
    /\ \A i \in 1..Len(c.name) : Capital(c.name[i]) = Capital(d.name[i])

Cached(c) == [found |-> TRUE, value |-> c]

\* C39: the cache keys a channel by its owner ('*' when absent) and its name
\* in lower case.  After add(c), get(c') returns c for every c' with the key
\* of c, replacing what was there, and the other keys are as before; after
\* remove(c) get returns nothing for the key of c and the other keys are as
\* before; after clear every get returns nothing; get itself returns the
\* entry of the key and changes nothing.
C39_KeyedByOwnerAndName ==
    [][\A d \in CacheChannels :
          /\ cacheOp'.op = "add"
                => Lookup(store', d)
                      = (IF SameKey(d, cacheOp'.arg) THEN Cached(cacheOp'.arg)
                         ELSE Lookup(store, d))
          /\ cacheOp'.op = "remove"
                => Lookup(store', d)
                      = (IF SameKey(d, cacheOp'.arg) THEN Nothing
                         ELSE Lookup(store, d))
          /\ cacheOp'.op = "clear" => Lookup(store', d) = Nothing
          /\ cacheOp'.op = "get"
                => /\ store' = store
                   /\ SameKey(d, cacheOp'.arg)
                         => CacheOp("get", cacheOp'.arg, Lookup(store, d))
                               = cacheOp']_vars

C39_Witness ==
    /\ cacheOp.op = "get"
    /\ cacheOp.found
    /\ cacheOp.result.name # cacheOp.arg.name
    /\ cacheOp.arg.userId = ""
    /\ Cardinality(DOMAIN store) >= 2

Position(what) == CHOOSE i \in 1..Len(trace) : trace[i] = what

\* C40: when the request of User.logout settles, resolved or rejected, the
\* current user is null, hatCredentials is null and the auth-token cookie is
\* gone; and logout removes the refresh-token cookie before it sends the
\* request.
C40_LogoutClearsSession ==
    [][/\ (logoutReq = "sent" /\ logoutReq' \in {"resolved", "rejected"})
             => /\ ~mCurrentUser'
                /\ ~hatCredentials'
                /\ AUTH_TOKEN \notin cookies'
       /\ (logoutReq = "none" /\ logoutReq' = "sent")
             => /\ REFRESH_TOKEN \notin cookies'
                /\ Position("remove-refresh-token")' < Position("request")']_vars

C40_Witness ==
    /\ logoutReq = "rejected"
    /\ loginReq = "connecting"
    /\ ~mCurrentUser
    /\ ~hatCredentials
    /\ AUTH_TOKEN \notin cookies
    /\ trace = <<"remove-refresh-token", "disconnect", "request", "clearSession">>

====
